---- MODULE Spec2Model ----
(***************************************************************************)
(* activity-collector-mcp: the activity cache (src/utils/cache.ts), the    *)
(* cache-checked fetch tasks and the parallel orchestrator of the MCP      *)
(* server, and the activity distributor.                                  *)
(*                                                                         *)
(* Time is in milliseconds, as Date.now().  A calendar day is a small      *)
(* integer (day 1, day 2, ...); the Date of a day is its local midnight.   *)
(***************************************************************************)
EXTENDS Integers, Sequences, FiniteSets, TLC

\* ---------------------------------------------------------------- bounds
MaxDays == 2
MaxTicks == 1
MaxPassTicks == 1
MaxCalls == 3
MaxPasses == 2
MaxFetches == 3
MaxDistDays == 3
MaxCommits == 3
MaxMergeRequests == 2
MaxIssues == 1
MaxRequests == 2
MaxPhaseDays == 9
MaxAttempts == 20
MaxCallbacks == 2

\* ------------------------------------------------------ program constants
DEFAULT_CACHE_TTL == 3600000
DefaultStartPort == 8080
DefaultEndPort == 8090

Days == 1..MaxDays
Namespaces == {"gitlab", "googleCalendar", "outlookCalendar"}

VARIABLES
  cache,       \* ActivityCache.cache: namespace -> (date key -> CacheEntry)
  cacheStats,  \* ActivityCache.cacheStats
  cacheTTL,    \* ActivityCache.cacheTTL
  file,        \* the persisted cache file (CACHE_FILE)
  now,         \* Date.now()
  ticks,       \* number of clock advances so far
  tzEast,      \* the process's timezone is east of UTC
  last,        \* the last cache call of the sequential caller and its outcome
  calls,       \* number of cache calls of the sequential caller so far
  wfailed,     \* a writeFile of the cache file has failed
  auth,        \* the authenticated flags of the running pass
  phase,       \* "idle", or "running" while fetchMultipleDaysParallel is pending
  reqDays,     \* dates: the days of the running pass, in input order
  force,       \* forceRefresh of the running pass
  task,        \* per input position, the three fetch tasks of that day
  dayResult,   \* per input position, the value fetchDayActivityParallel resolved to
  settled,     \* input positions in the order their promises resolved
  returned,    \* the values fetchMultipleDaysParallel returned, one per pass
  fetched,     \* number of adapter calls the passes so far may have made
  activities,  \* the DayActivity list handed to the distributor
  callerArray, \* the caller's array as it stands: its positions and their records
  distribution, \* the DistributionResult it returned, or NoResult
  mode,        \* the distributor method that was called, or "none"
  today,       \* the local calendar day of new Date()
  configured,  \* the token file and config.json hold the provider's credentials
  request,     \* the arguments of the tool call being handled, or NoRequest
  toolPc,      \* the await the tool handler is suspended at
  currentDate, \* currentDate of the range loop
  allActivities, \* allActivities / allEvents of the handler: day -> its result
  io,          \* the file reads, cache lookups and provider calls of this tool call
  response,    \* what the CallTool handler returned for the last tool call
  requests,    \* number of tool calls so far
  portsInUse,  \* the ports of localhost other programs listen on
  oauthServer, \* the OAuthServer: its port, the port start() tries, its outcome
  googleCall,  \* the running GoogleCalendarIntegration.getEventsForDate call
  oauthFlow    \* the running runOAuthFlow call and its server's callbackPromise

cacheVars == <<cache, cacheStats, cacheTTL, file, now, ticks, tzEast, last, calls, wfailed>>
orchVars == <<auth, phase, reqDays, force, task, dayResult, settled, returned, fetched>>
distVars == <<activities, callerArray, distribution, mode>>
toolVars == <<today, configured, request, toolPc, currentDate, allActivities, io, response, requests>>
oauthVars == <<portsInUse, oauthServer>>
googleVars == <<googleCall>>
flowVars == <<oauthFlow>>
vars == <<cache, cacheStats, cacheTTL, file, now, ticks, tzEast, last, calls, wfailed,
          auth, phase, reqDays, force, task, dayResult, settled, returned, fetched,
          activities, callerArray, distribution, mode,
          today, configured, request, toolPc, currentDate, allActivities, io, response, requests,
          portsInUse, oauthServer, googleCall, oauthFlow>>

\* ------------------------------------------------------------- the cache
EmptyMap == [k \in {} |-> 0]

EmptyCache ==
  [gitlab |-> EmptyMap, googleCalendar |-> EmptyMap, outlookCalendar |-> EmptyMap]

ZeroStats ==
  [gitlabHits |-> 0, gitlabMisses |-> 0, googleHits |-> 0, googleMisses |-> 0,
   outlookHits |-> 0, outlookMisses |-> 0]

NoFile == [exists |-> FALSE]
FileOf(c) == [exists |-> TRUE, content |-> c]

\* date.toISOString().split('T')[0] of the local midnight of day d: the UTC
\* calendar day of that instant, the day before d east of UTC.
getDateKey(d, east) == IF east THEN d - 1 ELSE d

isExpiredGE(timestamp, t, ttl) == t - timestamp >= ttl
isExpired(timestamp, t, ttl) == t - timestamp > ttl

Remove(f, k) == [x \in (DOMAIN f) \ {k} |-> f[x]]
Put(f, k, v) == [x \in (DOMAIN f) \cup {k} |-> IF x = k THEN v ELSE f[x]]

Source(ns) ==
  CASE ns = "gitlab" -> "gitlab"
    [] ns = "googleCalendar" -> "google_calendar"
    [] ns = "outlookCalendar" -> "outlook_calendar"

CountHit(stats, ns) ==
  CASE ns = "gitlab" -> [stats EXCEPT !.gitlabHits = @ + 1]
    [] ns = "googleCalendar" -> [stats EXCEPT !.googleHits = @ + 1]
    [] ns = "outlookCalendar" -> [stats EXCEPT !.outlookHits = @ + 1]

CountMissNone(stats, ns) == stats
CountMiss(stats, ns) ==
  CASE ns = "gitlab" -> [stats EXCEPT !.gitlabMisses = @ + 1]
    [] ns = "googleCalendar" -> [stats EXCEPT !.googleMisses = @ + 1]
    [] ns = "outlookCalendar" -> [stats EXCEPT !.outlookMisses = @ + 1]

NoData == <<>>

\* getGitLabActivity / getGoogleCalendarEvents / getOutlookCalendarEvents on
\* store c with counters stats at time t: the store, the counters and the
\* value returned (hit = a non-null return value).
CacheGet(c, stats, ttl, ns, key, t) ==
  IF key \notin DOMAIN c[ns]
    THEN [cache |-> c, stats |-> CountMiss(stats, ns), hit |-> FALSE, data |-> NoData]
    ELSE IF isExpired(c[ns][key].timestamp, t, ttl)
      THEN [cache |-> [c EXCEPT ![ns] = Remove(@, key)],
            stats |-> CountMiss(stats, ns), hit |-> FALSE, data |-> NoData]
      ELSE [cache |-> c, stats |-> CountHit(stats, ns), hit |-> TRUE,
            data |-> c[ns][key].data]

\* The in-memory half of setGitLabActivity / setGoogleCalendarEvents /
\* setOutlookCalendarEvents: the store after the assignment.
CachePut(c, ns, key, data, t) ==
  [c EXCEPT ![ns] = Put(@, key, [data |-> data, timestamp |-> t, source |-> Source(ns)])]

\* The days the sequential caller of the cache asks for.
CallDays == {1, 2}

\* Payloads a caller of the cache stores in the cache-only specification.
SamplePayloads == {<<>>, <<"a">>}

NoCall == [op |-> "none"]

NoResult == [none |-> TRUE]

\* The distributor is not in use.
DistIdle ==
  activities = <<>> /\ callerArray = <<>> /\ distribution = NoResult /\ mode = "none"

NoRequest == [tool |-> "none"]

NoResponse == [kind |-> "none"]

NoIO == [reads |-> {}, lookups |-> {}, calls |-> {}]

\* No tool call has been made.
ToolIdle ==
  /\ today = 0
  /\ configured = FALSE
  /\ request = NoRequest
  /\ toolPc = "idle"
  /\ currentDate = 0
  /\ allActivities = EmptyMap
  /\ io = NoIO
  /\ response = NoResponse
  /\ requests = 0

\* new OAuthServer(): no port, start() not called.
NotStarted == [port |-> 0, trying |-> 0, outcome |-> "none"]

\* No OAuth flow is run.
OAuthIdle == portsInUse = {} /\ oauthServer = NotStarted

\* getEventsForDate has not been called: the integration is not initialized
\* and nothing has been counted.
NoGoogleCall ==
  [pc |-> "idle", initialized |-> FALSE, expired |-> FALSE, attempts |-> 0,
   refreshes |-> 0, result |-> "none"]
GoogleIdle == googleCall = NoGoogleCall

\* runOAuthFlow has not been called.
NoFlow ==
  [pc |-> "idle", callbackPromise |-> "none", received |-> <<>>, browser |-> "none",
   result |-> "none", error |-> "none"]
FlowIdle == oauthFlow = NoFlow

NoAuth == [gitlab |-> FALSE, github |-> FALSE, google |-> FALSE, outlook |-> FALSE]

\* The orchestrator is not in use.
OrchIdle ==
  /\ auth = NoAuth
  /\ phase = "idle"
  /\ reqDays = <<>>
  /\ force = FALSE
  /\ task = <<>>
  /\ dayResult = <<>>
  /\ settled = <<>>
  /\ returned = <<>>
  /\ fetched = 0

CacheInit ==
  /\ cache = EmptyCache
  /\ cacheStats = ZeroStats
  /\ cacheTTL = DEFAULT_CACHE_TTL
  /\ file = NoFile
  /\ now = 0
  /\ ticks = 0
  /\ tzEast \in BOOLEAN
  /\ last = NoCall
  /\ calls = 0
  /\ wfailed = FALSE
  /\ OrchIdle
  /\ DistIdle
  /\ ToolIdle
  /\ OAuthIdle
  /\ GoogleIdle
  /\ FlowIdle

\* Date.now() advances between two calls: by one millisecond, by the TTL or
\* by a millisecond more.
Tick ==
  /\ ticks < MaxTicks
  /\ \E delta \in {1, DEFAULT_CACHE_TTL, DEFAULT_CACHE_TTL + 1} : now' = now + delta
  /\ ticks' = ticks + 1
  /\ UNCHANGED <<cache, cacheStats, cacheTTL, file, tzEast, last, calls, wfailed>>
  /\ UNCHANGED orchVars
  /\ UNCHANGED distVars
  /\ UNCHANGED toolVars
  /\ UNCHANGED oauthVars
  /\ UNCHANGED googleVars
  /\ UNCHANGED flowVars

\* A get of the sequential caller.  last records the call and what the
\* caller saw: whether the key was stored and how old the entry was.
CallGet ==
  /\ calls < MaxCalls
  /\ calls' = calls + 1
  /\ \E ns \in Namespaces, d \in CallDays :
    LET key == getDateKey(d, tzEast)
        r == CacheGet(cache, cacheStats, cacheTTL, ns, key, now)
        had == key \in DOMAIN cache[ns]
    IN /\ cache' = r.cache
       /\ cacheStats' = r.stats
       /\ last' = [op |-> "get", ns |-> ns, day |-> d, key |-> key, hit |-> r.hit,
                   data |-> r.data, had |-> had,
                   age |-> IF had THEN now - cache[ns][key].timestamp ELSE 0,
                   stored |-> IF had THEN cache[ns][key].data ELSE NoData]
       /\ UNCHANGED <<cacheTTL, file, now, ticks, tzEast, wfailed>>
       /\ UNCHANGED orchVars
       /\ UNCHANGED distVars
       /\ UNCHANGED toolVars
       /\ UNCHANGED oauthVars
  /\ UNCHANGED googleVars
  /\ UNCHANGED flowVars

\* A set of the sequential caller, awaited: the assignment and save().
CallSet ==
  /\ calls < MaxCalls
  /\ calls' = calls + 1
  /\ \E ns \in Namespaces, d \in CallDays, p \in SamplePayloads :
    LET key == getDateKey(d, tzEast)
        c2 == CachePut(cache, ns, key, p, now)
    IN /\ cache' = c2
       /\ file' = FileOf(c2)
       /\ last' = [op |-> "set", ns |-> ns, day |-> d, key |-> key]
       /\ UNCHANGED <<cacheStats, cacheTTL, now, ticks, tzEast, wfailed>>
       /\ UNCHANGED orchVars
       /\ UNCHANGED distVars
       /\ UNCHANGED toolVars
       /\ UNCHANGED oauthVars
  /\ UNCHANGED googleVars
  /\ UNCHANGED flowVars

\* clearGitLab / clearCalendars: the store after the assignment.
clearGitLabAll(c) == EmptyCache
clearGitLab(c) == [c EXCEPT !.gitlab = EmptyMap]

clearCalendars(c) == [c EXCEPT !.googleCalendar = EmptyMap, !.outlookCalendar = EmptyMap]

\* clearGitLab() of the sequential caller, awaited: the assignment and
\* save().  last keeps the store and the counters the call found.
CallClearGitLab ==
  /\ calls < MaxCalls
  /\ calls' = calls + 1
  /\ cache' = clearGitLab(cache)
  /\ file' = FileOf(cache')
  /\ last' = [op |-> "clearGitLab", before |-> cache, statsBefore |-> cacheStats]
  /\ UNCHANGED <<cacheStats, cacheTTL, now, ticks, tzEast, wfailed>>
  /\ UNCHANGED orchVars
  /\ UNCHANGED distVars
  /\ UNCHANGED toolVars
  /\ UNCHANGED oauthVars
  /\ UNCHANGED googleVars
  /\ UNCHANGED flowVars

\* clearCalendars() of the sequential caller, awaited.
CallClearCalendars ==
  /\ calls < MaxCalls
  /\ calls' = calls + 1
  /\ cache' = clearCalendars(cache)
  /\ file' = FileOf(cache')
  /\ last' = [op |-> "clearCalendars", before |-> cache, statsBefore |-> cacheStats]
  /\ UNCHANGED <<cacheStats, cacheTTL, now, ticks, tzEast, wfailed>>
  /\ UNCHANGED orchVars
  /\ UNCHANGED distVars
  /\ UNCHANGED toolVars
  /\ UNCHANGED oauthVars
  /\ UNCHANGED googleVars
  /\ UNCHANGED flowVars

\* clearExpired: in every namespace the entries whose age at time t exceeds
\* the TTL are deleted.
clearExpiredGE(c, t, ttl) ==
  [ns \in Namespaces |->
     [k \in {x \in DOMAIN c[ns] : ~(t - c[ns][x].timestamp >= ttl)} |-> c[ns][k]]]
clearExpired(c, t, ttl) ==
  [ns \in Namespaces |->
     [k \in {x \in DOMAIN c[ns] : ~(t - c[ns][x].timestamp > ttl)} |-> c[ns][k]]]

\* clearExpired() of the sequential caller, awaited: the sweep and save().
CallClearExpired ==
  /\ calls < MaxCalls
  /\ calls' = calls + 1
  /\ cache' = clearExpired(cache, now, cacheTTL)
  /\ file' = FileOf(cache')
  /\ last' = [op |-> "clearExpired", before |-> cache, statsBefore |-> cacheStats,
              at |-> now]
  /\ UNCHANGED <<cacheStats, cacheTTL, now, ticks, tzEast, wfailed>>
  /\ UNCHANGED orchVars
  /\ UNCHANGED distVars
  /\ UNCHANGED toolVars
  /\ UNCHANGED oauthVars
  /\ UNCHANGED googleVars
  /\ UNCHANGED flowVars

\* clearAll() of the sequential caller, awaited: the store is replaced by an
\* empty one, saved, and the counters are reset.
CallClearAll ==
  /\ calls < MaxCalls
  /\ calls' = calls + 1
  /\ cache' = EmptyCache
  /\ file' = FileOf(cache')
  /\ cacheStats' = ZeroStats
  /\ last' = [op |-> "clearAll", before |-> cache, statsBefore |-> cacheStats]
  /\ UNCHANGED <<cacheTTL, now, ticks, tzEast, wfailed>>
  /\ UNCHANGED orchVars
  /\ UNCHANGED distVars
  /\ UNCHANGED toolVars
  /\ UNCHANGED oauthVars
  /\ UNCHANGED googleVars
  /\ UNCHANGED flowVars

\* getCacheStats(): the counters and their totals; hitRate is kept in tenths
\* of a percent, toFixed(1) rounding to the nearest tenth.
getCacheStats(stats) ==
  LET total == stats.gitlabHits + stats.gitlabMisses + stats.googleHits
               + stats.googleMisses + stats.outlookHits + stats.outlookMisses
      hits == stats.gitlabHits + stats.googleHits + stats.outlookHits
  IN [counters |-> stats, totalHits |-> hits, totalRequests |-> total,
      hitRate |-> IF total > 0 THEN (2000 * hits + total) \div (2 * total) ELSE 0]

NextCache ==
  \/ Tick
  \/ CallGet
  \/ CallSet
  \/ CallClearGitLab
  \/ CallClearCalendars
  \/ CallClearExpired
  \/ CallClearAll

SpecCache == CacheInit /\ [][NextCache]_vars

\* ------------------------------------------------- the provider adapters
\* What gitlab.getActivityForDate / github.getActivityForDate return for
\* day d when they succeed: GitLab has d commits and one merge request,
\* GitHub two commits and one issue.  An item names its provider and day.
NItems(p, d) == IF p = "gitlab" THEN d ELSE 2

getActivityForDate(p, d) ==
  [date |-> d,
   commits |-> [k \in 1..NItems(p, d) |-> <<p, d, k>>],
   mergeRequests |-> IF p = "gitlab" THEN << <<p, d, "mr">> >> ELSE <<>>,
   issues |-> IF p = "github" THEN << <<p, d, "issue">> >> ELSE <<>>]

\* What googleCalendar.getEventsForDate / outlookCalendar.getEventsForDate
\* return for day d when they succeed: the Google calendar is empty on odd
\* days, the Outlook calendar has one event every day.
getEventsForDate(p, d) ==
  IF p = "google"
    THEN IF d % 2 = 1 THEN <<>> ELSE << <<p, d, 1>> >>
    ELSE << <<p, d, 1>> >>

\* --------------------------------------------------------- the fetch tasks
EmptyActivity(d) == [date |-> d, commits |-> <<>>, mergeRequests |-> <<>>, issues |-> <<>>]

\* mergeGitActivities
mergeGitActivitiesGitHubFirst(gitlabActivity, githubActivity) ==
  [date |-> gitlabActivity.date,
   commits |-> githubActivity.commits \o gitlabActivity.commits,
   mergeRequests |-> githubActivity.mergeRequests \o gitlabActivity.mergeRequests,
   issues |-> githubActivity.issues \o gitlabActivity.issues]
mergeGitActivities(gitlabActivity, githubActivity) ==
  [date |-> gitlabActivity.date,
   commits |-> gitlabActivity.commits \o githubActivity.commits,
   mergeRequests |-> gitlabActivity.mergeRequests \o githubActivity.mergeRequests,
   issues |-> gitlabActivity.issues \o githubActivity.issues]

\* A fetch task: where it is suspended (pc), the value it holds (val: the
\* activity or the meetings), fromCache, and the snapshot its pending
\* writeFile was given (snap).  A commit task also records what became of
\* its adapter call (adapter: "none", "returned", "failed" when the adapter
\* caught an API error and returned nothing, "raised"); a calendar task
\* how its Google stage ended (g: "skip", "hit", "fresh", "error"), the
\* events Google yielded (gEvents) and what its Outlook stage did (o:
\* "skip", "hit", "fetch", "error").
GitTask(pc, val, fromCache, snap, adapter) ==
  [pc |-> pc, val |-> val, fromCache |-> fromCache, snap |-> snap, adapter |-> adapter]
CalTask(pc, val, fromCache, snap, g, gEvents, o) ==
  [pc |-> pc, val |-> val, fromCache |-> fromCache, snap |-> snap,
   g |-> g, gEvents |-> gEvents, o |-> o]

NoSnap == EmptyCache

\* The namespace fetchGitLabActivityWithCache / fetchGitHubActivityWithCache
\* read and write: both use getGitLabActivity / setGitLabActivity.
GitNamespace(p) == "gitlab"

\* fetchGitLabActivityWithCache / fetchGitHubActivityWithCache up to the
\* first suspension: the cache lookup unless forceRefresh.
StartGit(c, st, p, d, enabled, fr, t, east) ==
  IF ~enabled
    THEN [cache |-> c, stats |-> st, task |-> GitTask("off", <<>>, FALSE, NoSnap, "none")]
    ELSE IF fr
      THEN [cache |-> c, stats |-> st, task |-> GitTask("fetching", <<>>, FALSE, NoSnap, "none")]
      ELSE LET r == CacheGet(c, st, cacheTTL, GitNamespace(p), getDateKey(d, east), t)
           IN [cache |-> r.cache, stats |-> r.stats,
               task |-> IF r.hit THEN GitTask("done", r.data, TRUE, NoSnap, "none")
                                 ELSE GitTask("fetching", <<>>, FALSE, NoSnap, "none")]

\* The condition under which fetchCalendarEventsWithCache turns to Outlook.
TryOutlookNever(meetings, outlookAuthenticated) == FALSE
TryOutlookAlways(meetings, outlookAuthenticated) == outlookAuthenticated
TryOutlook(meetings, outlookAuthenticated) ==
  Len(meetings) = 0 /\ outlookAuthenticated

\* fetchCalendarEventsWithCache from "If no Google meetings, try Outlook" to
\* its next suspension, the Google stage having ended as g with gEvents.
OutlookStage(c, st, d, meetings, g, gEvents, outlookAuthenticated, fr, t, east) ==
  IF TryOutlook(meetings, outlookAuthenticated)
    THEN IF fr
      THEN [cache |-> c, stats |-> st,
            task |-> CalTask("o_fetching", meetings, FALSE, NoSnap, g, gEvents, "fetch")]
      ELSE LET r == CacheGet(c, st, cacheTTL, "outlookCalendar", getDateKey(d, east), t)
           IN [cache |-> r.cache, stats |-> r.stats,
               task |-> IF r.hit
                 THEN CalTask("done", r.data, TRUE, NoSnap, g, gEvents, "hit")
                 ELSE CalTask("o_fetching", meetings, FALSE, NoSnap, g, gEvents, "fetch")]
    ELSE [cache |-> c, stats |-> st,
          task |-> CalTask("done", meetings, FALSE, NoSnap, g, gEvents, "skip")]

\* fetchCalendarEventsWithCache up to its first suspension.
StartCalendar(c, st, d, googleAuthenticated, outlookAuthenticated, fr, t, east) ==
  IF googleAuthenticated
    THEN IF fr
      THEN [cache |-> c, stats |-> st,
            task |-> CalTask("g_fetching", <<>>, FALSE, NoSnap, "fresh", <<>>, "skip")]
      ELSE LET r == CacheGet(c, st, cacheTTL, "googleCalendar", getDateKey(d, east), t)
           IN [cache |-> r.cache, stats |-> r.stats,
               task |-> IF r.hit
                 THEN CalTask("done", r.data, TRUE, NoSnap, "hit", r.data, "skip")
                 ELSE CalTask("g_fetching", <<>>, FALSE, NoSnap, "fresh", <<>>, "skip")]
    ELSE OutlookStage(c, st, d, <<>>, "skip", <<>>, outlookAuthenticated, fr, t, east)

\* fetchDayActivityParallel up to its await: the three tasks of day d are
\* started one after the other, each running to its first suspension.
StartDay(c, st, d, a, fr, t, east) ==
  LET gl == StartGit(c, st, "gitlab", d, a.gitlab, fr, t, east)
      gh == StartGit(gl.cache, gl.stats, "github", d, a.github, fr, t, east)
      cal == StartCalendar(gh.cache, gh.stats, d, a.google, a.outlook, fr, t, east)
  IN [cache |-> cal.cache, stats |-> cal.stats,
      tasks |-> [gitlab |-> gl.task, github |-> gh.task, calendar |-> cal.task]]

\* dates.map(...): the days are started in input order, without suspension.
RECURSIVE StartDays(_, _, _, _, _, _, _, _)
StartDays(ds, i, acc, a, fr, t, east, tasks) ==
  IF i > Len(ds)
    THEN [cache |-> acc.cache, stats |-> acc.stats, tasks |-> tasks]
    ELSE LET r == StartDay(acc.cache, acc.stats, ds[i], a, fr, t, east)
         IN StartDays(ds, i + 1, [cache |-> r.cache, stats |-> r.stats], a, fr, t, east,
                      Append(tasks, r.tasks))

Settled(tk) == tk.pc \in {"off", "done", "rejected"}

\* The value fetchDayActivityParallel builds from the three settled results.
BuildDay(d, tks) ==
  LET gitlabActivity == IF tks.gitlab.pc = "done" THEN tks.gitlab.val ELSE EmptyActivity(d)
      githubActivity == IF tks.github.pc = "done" THEN tks.github.val ELSE EmptyActivity(d)
  IN [activity |-> [date |-> d,
                    meetings |-> IF tks.calendar.pc = "done" THEN tks.calendar.val ELSE <<>>,
                    gitlabActivity |-> mergeGitActivities(gitlabActivity, githubActivity),
                    description |-> ""],
      cacheInfo |-> [gitlab |-> tks.gitlab.pc = "done" /\ tks.gitlab.fromCache,
                     github |-> tks.github.pc = "done" /\ tks.github.fromCache,
                     calendar |-> tks.calendar.pc = "done" /\ tks.calendar.fromCache]]

\* Promise.all(promises): the resolved values, by input position.
PromiseAllByCompletion(n, values, order) == [i \in 1..n |-> values[order[i]]]
PromiseAll(n, values, order) == [i \in 1..n |-> values[i]]

\* Sequences of distinct days, of length 1..MaxDays.
RECURSIVE SeqsOfLen(_, _)
SeqsOfLen(S, n) ==
  IF n = 0 THEN {<<>>}
  ELSE {Append(q, x) : q \in SeqsOfLen(S, n - 1), x \in S}
Distinct(q) == \A i, j \in 1..Len(q) : i # j => q[i] # q[j]
DaySeqs == {q \in UNION {SeqsOfLen(Days, n) : n \in 1..MaxDays} : Distinct(q)}

Pending == [pending |-> TRUE]

\* The authenticated flags a pass is called with: at least one provider is
\* authenticated.
AuthFlags ==
  [gitlab : BOOLEAN, github : BOOLEAN, google : BOOLEAN, outlook : BOOLEAN] \ {NoAuth}

\* The adapter calls the started tasks tks may make: one per commit task
\* that missed the cache, and for a calendar task that missed one per
\* calendar provider it may still turn to.
AdapterCalls(tks, a) ==
  (IF tks.gitlab.pc = "fetching" THEN 1 ELSE 0)
  + (IF tks.github.pc = "fetching" THEN 1 ELSE 0)
  + (IF tks.calendar.pc = "g_fetching" THEN (IF a.outlook THEN 2 ELSE 1) ELSE 0)
  + (IF tks.calendar.pc = "o_fetching" THEN 1 ELSE 0)

RECURSIVE SumCalls(_, _, _)
SumCalls(tasks, i, a) ==
  IF i > Len(tasks) THEN 0 ELSE AdapterCalls(tasks[i], a) + SumCalls(tasks, i + 1, a)

DaySettled(tks) == Settled(tks.gitlab) /\ Settled(tks.github) /\ Settled(tks.calendar)

\* Promise.allSettled of position i resolves with the settling of the last
\* of its three tasks: fetchDayActivityParallel builds the day's value and
\* returns it.  tks are the tasks after the step.
ResolveDay(i, tks) ==
  IF DaySettled(tks[i])
    THEN /\ dayResult' = [dayResult EXCEPT ![i] = BuildDay(reqDays[i], tks[i])]
         /\ settled' = Append(settled, i)
    ELSE UNCHANGED <<dayResult, settled>>

OrchInit ==
  /\ cache = EmptyCache
  /\ cacheStats = ZeroStats
  /\ cacheTTL = DEFAULT_CACHE_TTL
  /\ file = NoFile
  /\ now = 0
  /\ ticks = 0
  /\ tzEast = FALSE
  /\ last = NoCall
  /\ calls = 0
  /\ wfailed = FALSE
  /\ auth = NoAuth
  /\ phase = "idle"
  /\ reqDays = <<>>
  /\ force = FALSE
  /\ task = <<>>
  /\ dayResult = <<>>
  /\ settled = <<>>
  /\ returned = <<>>
  /\ fetched = 0
  /\ DistIdle
  /\ ToolIdle
  /\ OAuthIdle
  /\ GoogleIdle
  /\ FlowIdle

\* Date.now() advances between two passes: by the TTL or by a millisecond
\* more.
PassTick ==
  /\ phase = "idle"
  /\ returned # <<>>
  /\ Len(returned) < MaxPasses
  /\ ticks < MaxPassTicks
  /\ \E delta \in {DEFAULT_CACHE_TTL, DEFAULT_CACHE_TTL + 1} : now' = now + delta
  /\ ticks' = ticks + 1
  /\ UNCHANGED <<cache, cacheStats, cacheTTL, file, tzEast, last, calls, wfailed>>
  /\ UNCHANGED orchVars
  /\ UNCHANGED distVars
  /\ UNCHANGED toolVars
  /\ UNCHANGED oauthVars
  /\ UNCHANGED googleVars
  /\ UNCHANGED flowVars

\* fetchMultipleDaysParallel(dates, ..., forceRefresh) is called and runs to
\* its await of Promise.all.
StartPass ==
  /\ phase = "idle"
  /\ Len(returned) < MaxPasses
  /\ \E ds \in DaySeqs, fr \in BOOLEAN, a \in AuthFlags :
       LET r == StartDays(ds, 1, [cache |-> cache, stats |-> cacheStats], a, fr,
                          now, tzEast, <<>>)
       IN /\ fetched + SumCalls(r.tasks, 1, a) <= MaxFetches
          /\ fetched' = fetched + SumCalls(r.tasks, 1, a)
          /\ auth' = a
          /\ reqDays' = ds
          /\ force' = fr
          /\ cache' = r.cache
          /\ cacheStats' = r.stats
          /\ task' = r.tasks
          /\ dayResult' = [i \in 1..Len(ds) |->
               IF DaySettled(r.tasks[i]) THEN BuildDay(ds[i], r.tasks[i]) ELSE Pending]
          /\ settled' = SelectSeq([i \in 1..Len(ds) |-> i], LAMBDA i : DaySettled(r.tasks[i]))
          /\ phase' = "running"
  /\ UNCHANGED <<cacheTTL, file, now, ticks, tzEast, last, calls, wfailed, returned>>
  /\ UNCHANGED distVars
  /\ UNCHANGED toolVars
  /\ UNCHANGED oauthVars
  /\ UNCHANGED googleVars
  /\ UNCHANGED flowVars

\* The adapter of a commit provider returns: setGitLabActivity assigns the
\* entry and calls save(), whose writeFile is then pending.
GitAdapterReturn ==
  /\ phase = "running"
  /\ \E i \in 1..Len(reqDays), p \in {"gitlab", "github"} :
       /\ task[i][p].pc = "fetching"
       /\ LET activity == getActivityForDate(p, reqDays[i])
              c2 == CachePut(cache, GitNamespace(p), getDateKey(reqDays[i], tzEast), activity, now)
          IN /\ cache' = c2
             /\ task' = [task EXCEPT ![i][p] = GitTask("saving", activity, FALSE, c2, "returned")]
             /\ ResolveDay(i, task')
  /\ UNCHANGED <<cacheStats, cacheTTL, file, now, ticks, tzEast, last, calls, wfailed>>
  /\ UNCHANGED <<auth, phase, reqDays, force, returned, fetched>>
  /\ UNCHANGED distVars
  /\ UNCHANGED toolVars
  /\ UNCHANGED oauthVars
  /\ UNCHANGED googleVars
  /\ UNCHANGED flowVars

\* A request of the adapter of a commit provider to the remote API fails:
\* the adapter's catch logs the error and the adapter returns the activity it
\* has built so far, none; the task stores it like any other.
GitAdapterFail ==
  /\ phase = "running"
  /\ \E i \in 1..Len(reqDays), p \in {"gitlab", "github"} :
       /\ task[i][p].pc = "fetching"
       /\ LET activity == EmptyActivity(reqDays[i])
              c2 == CachePut(cache, GitNamespace(p), getDateKey(reqDays[i], tzEast), activity, now)
          IN /\ cache' = c2
             /\ task' = [task EXCEPT ![i][p] = GitTask("saving", activity, FALSE, c2, "failed")]
             /\ ResolveDay(i, task')
  /\ UNCHANGED <<cacheStats, cacheTTL, file, now, ticks, tzEast, last, calls, wfailed>>
  /\ UNCHANGED <<auth, phase, reqDays, force, returned, fetched>>
  /\ UNCHANGED distVars
  /\ UNCHANGED toolVars
  /\ UNCHANGED oauthVars
  /\ UNCHANGED googleVars
  /\ UNCHANGED flowVars

\* The adapter of a commit provider raises: the task's promise rejects.
GitAdapterRaise ==
  /\ phase = "running"
  /\ \E i \in 1..Len(reqDays), p \in {"gitlab", "github"} :
       /\ task[i][p].pc = "fetching"
       /\ task' = [task EXCEPT ![i][p] = GitTask("rejected", <<>>, FALSE, NoSnap, "raised")]
       /\ ResolveDay(i, task')
  /\ UNCHANGED cacheVars
  /\ UNCHANGED <<auth, phase, reqDays, force, returned, fetched>>
  /\ UNCHANGED distVars
  /\ UNCHANGED toolVars
  /\ UNCHANGED oauthVars
  /\ UNCHANGED googleVars
  /\ UNCHANGED flowVars

\* The writeFile of a commit task completes: the file holds its snapshot and
\* the task returns { activity, fromCache: false }.
GitSaveDone ==
  /\ phase = "running"
  /\ \E i \in 1..Len(reqDays), p \in {"gitlab", "github"} :
       /\ task[i][p].pc = "saving"
       /\ file' = FileOf(task[i][p].snap)
       /\ task' = [task EXCEPT ![i][p] = GitTask("done", @.val, FALSE, NoSnap, @.adapter)]
       /\ ResolveDay(i, task')
  /\ UNCHANGED <<cache, cacheStats, cacheTTL, now, ticks, tzEast, last, calls, wfailed>>
  /\ UNCHANGED <<auth, phase, reqDays, force, returned, fetched>>
  /\ UNCHANGED distVars
  /\ UNCHANGED toolVars
  /\ UNCHANGED oauthVars
  /\ UNCHANGED googleVars
  /\ UNCHANGED flowVars

\* The writeFile of a commit task fails: setGitLabActivity rejects and with
\* it the task.
GitSaveFail ==
  /\ phase = "running"
  /\ \E i \in 1..Len(reqDays), p \in {"gitlab", "github"} :
       /\ task[i][p].pc = "saving"
       /\ task' = [task EXCEPT ![i][p] = GitTask("rejected", @.val, FALSE, NoSnap, @.adapter)]
       /\ ResolveDay(i, task')
  /\ wfailed' = TRUE
  /\ UNCHANGED <<cache, cacheStats, cacheTTL, file, now, ticks, tzEast, last, calls>>
  /\ UNCHANGED <<auth, phase, reqDays, force, returned, fetched>>
  /\ UNCHANGED distVars
  /\ UNCHANGED toolVars
  /\ UNCHANGED oauthVars
  /\ UNCHANGED googleVars
  /\ UNCHANGED flowVars

CalStageNamespace(pc) == IF pc \in {"g_fetching", "g_saving"} THEN "googleCalendar" ELSE "outlookCalendar"
CalStageProvider(pc) == IF pc \in {"g_fetching", "g_saving"} THEN "google" ELSE "outlook"

\* What the calendar task does once a provider's try block is left, by its
\* end or by its catch: after Google the Outlook stage, after Outlook the
\* return of { meetings, fromCache }.
AfterCalStage(c, st, tk, d, meetings, g, gEvents) ==
  IF tk.pc \in {"g_fetching", "g_saving"}
    THEN OutlookStage(c, st, d, meetings, g, gEvents, auth.outlook, force, now, tzEast)
    ELSE [cache |-> c, stats |-> st,
          task |-> CalTask("done", meetings, FALSE, NoSnap, g, gEvents, tk.o)]

\* The adapter of a calendar provider returns: meetings is assigned, the
\* entry is set and save() called, whose writeFile is then pending.
CalAdapterReturn ==
  /\ phase = "running"
  /\ \E i \in 1..Len(reqDays) :
       LET tk == task[i].calendar
           events == getEventsForDate(CalStageProvider(tk.pc), reqDays[i])
           c2 == CachePut(cache, CalStageNamespace(tk.pc), getDateKey(reqDays[i], tzEast),
                          events, now)
       IN /\ tk.pc \in {"g_fetching", "o_fetching"}
          /\ cache' = c2
          /\ task' = [task EXCEPT ![i].calendar =
               CalTask(IF tk.pc = "g_fetching" THEN "g_saving" ELSE "o_saving", events, FALSE,
                       c2, tk.g, IF tk.pc = "g_fetching" THEN events ELSE tk.gEvents, tk.o)]
          /\ ResolveDay(i, task')
  /\ UNCHANGED <<cacheStats, cacheTTL, file, now, ticks, tzEast, last, calls, wfailed>>
  /\ UNCHANGED <<auth, phase, reqDays, force, returned, fetched>>
  /\ UNCHANGED distVars
  /\ UNCHANGED toolVars
  /\ UNCHANGED oauthVars
  /\ UNCHANGED googleVars
  /\ UNCHANGED flowVars

\* The adapter of a calendar provider raises: the catch logs it and meetings
\* keeps its value.
CalAdapterRaise ==
  /\ phase = "running"
  /\ \E i \in 1..Len(reqDays) :
       LET tk == task[i].calendar
           r == AfterCalStage(cache, cacheStats, tk, reqDays[i], tk.val,
                              IF tk.pc = "g_fetching" THEN "error" ELSE tk.g, tk.gEvents)
       IN /\ tk.pc \in {"g_fetching", "o_fetching"}
          /\ cache' = r.cache
          /\ cacheStats' = r.stats
          /\ task' = [task EXCEPT ![i].calendar =
               IF tk.pc = "o_fetching" THEN [r.task EXCEPT !.o = "error"] ELSE r.task]
          /\ ResolveDay(i, task')
  /\ UNCHANGED <<cacheTTL, file, now, ticks, tzEast, last, calls, wfailed>>
  /\ UNCHANGED <<auth, phase, reqDays, force, returned, fetched>>
  /\ UNCHANGED distVars
  /\ UNCHANGED toolVars
  /\ UNCHANGED oauthVars
  /\ UNCHANGED googleVars
  /\ UNCHANGED flowVars

\* The writeFile of a calendar task completes: the file holds its snapshot.
CalSaveDone ==
  /\ phase = "running"
  /\ \E i \in 1..Len(reqDays) :
       LET tk == task[i].calendar
           r == AfterCalStage(cache, cacheStats, tk, reqDays[i], tk.val, tk.g, tk.gEvents)
       IN /\ tk.pc \in {"g_saving", "o_saving"}
          /\ file' = FileOf(tk.snap)
          /\ cache' = r.cache
          /\ cacheStats' = r.stats
          /\ task' = [task EXCEPT ![i].calendar = r.task]
          /\ ResolveDay(i, task')
  /\ UNCHANGED <<cacheTTL, now, ticks, tzEast, last, calls, wfailed>>
  /\ UNCHANGED <<auth, phase, reqDays, force, returned, fetched>>
  /\ UNCHANGED distVars
  /\ UNCHANGED toolVars
  /\ UNCHANGED oauthVars
  /\ UNCHANGED googleVars
  /\ UNCHANGED flowVars

\* The writeFile of a calendar task fails: the catch logs it and meetings
\* keeps the fetched events.
CalSaveFail ==
  /\ phase = "running"
  /\ \E i \in 1..Len(reqDays) :
       LET tk == task[i].calendar
           r == AfterCalStage(cache, cacheStats, tk, reqDays[i], tk.val, tk.g, tk.gEvents)
       IN /\ tk.pc \in {"g_saving", "o_saving"}
          /\ cache' = r.cache
          /\ cacheStats' = r.stats
          /\ task' = [task EXCEPT ![i].calendar = r.task]
          /\ ResolveDay(i, task')
  /\ wfailed' = TRUE
  /\ UNCHANGED <<cacheTTL, file, now, ticks, tzEast, last, calls>>
  /\ UNCHANGED <<auth, phase, reqDays, force, returned, fetched>>
  /\ UNCHANGED distVars
  /\ UNCHANGED toolVars
  /\ UNCHANGED oauthVars
  /\ UNCHANGED googleVars
  /\ UNCHANGED flowVars

\* Promise.all resolves: fetchMultipleDaysParallel returns, and the call's
\* arguments and tasks are gone.  returned keeps the call's days and flags
\* beside its value.
PassReturn ==
  /\ phase = "running"
  /\ Len(settled) = Len(reqDays)
  /\ returned' = Append(returned, [days |-> reqDays, auth |-> auth,
                                    value |-> PromiseAll(Len(reqDays), dayResult, settled)])
  /\ phase' = "idle"
  /\ auth' = NoAuth
  /\ reqDays' = <<>>
  /\ force' = FALSE
  /\ task' = <<>>
  /\ dayResult' = <<>>
  /\ settled' = <<>>
  /\ UNCHANGED cacheVars
  /\ UNCHANGED fetched
  /\ UNCHANGED distVars
  /\ UNCHANGED toolVars
  /\ UNCHANGED oauthVars
  /\ UNCHANGED googleVars
  /\ UNCHANGED flowVars

Next ==
  \/ PassTick
  \/ StartPass
  \/ GitAdapterReturn
  \/ GitAdapterFail
  \/ GitAdapterRaise
  \/ GitSaveDone
  \/ GitSaveFail
  \/ CalAdapterReturn
  \/ CalAdapterRaise
  \/ CalSaveDone
  \/ CalSaveFail
  \/ PassReturn

Spec == OrchInit /\ [][Next]_vars

\* ------------------------------------------------ the activity distributor
\* A commit, a merge request and an issue of day d, as the adapters list
\* them; message and title are token sequences.
Commit(d, k) == [message |-> <<"commit", d, k>>, project |-> "proj", branch |-> "main"]
MergeRequest(d, k) == [title |-> <<"mr", d, k>>]
Issue(d, k) == [title |-> <<"issue", d, k>>]

\* The DayActivity of day d with the given numbers of items.
Day(d, nMeetings, nCommits, nMergeRequests, nIssues) ==
  [date |-> d,
   meetings |-> [k \in 1..nMeetings |-> <<"meeting", d, k>>],
   gitlabActivity |->
     [commits |-> [k \in 1..nCommits |-> Commit(d, k)],
      mergeRequests |-> [k \in 1..nMergeRequests |-> MergeRequest(d, k)],
      issues |-> [k \in 1..nIssues |-> Issue(d, k)]]]

DayShapes(d) ==
  {Day(d, m, c, r, n) : m \in 0..1, c \in 0..MaxCommits, r \in 0..MaxMergeRequests,
                        n \in 0..MaxIssues}

\* The lists a caller hands to the distributor: up to MaxDistDays days with
\* distinct dates 1..n, in any order.
DistInputs ==
  UNION {{q \in [1..n -> UNION {DayShapes(d) : d \in 1..n}] :
            \A i, j \in 1..n : i # j => q[i].date # q[j].date}
         : n \in 1..MaxDistDays}

\* distributed.sort((a, b) => a.date.getTime() - b.date.getTime())
RECURSIVE InsertByDate(_, _)
InsertByDate(sorted, x) ==
  IF sorted = <<>> THEN <<x>>
  ELSE IF x.date < Head(sorted).date THEN <<x>> \o sorted
  ELSE <<Head(sorted)>> \o InsertByDate(Tail(sorted), x)

SortByDateKeepOrder(acts) == acts
RECURSIVE SortByDate(_)
SortByDate(acts) ==
  IF acts = <<>> THEN <<>>
  ELSE InsertByDate(SortByDate(SubSeq(acts, 1, Len(acts) - 1)), acts[Len(acts)])

hasAnyActivityNoMeetings(day) ==
  \/ Len(day.gitlabActivity.commits) > 0
  \/ Len(day.gitlabActivity.mergeRequests) > 0
  \/ Len(day.gitlabActivity.issues) > 0
hasAnyActivity(day) ==
  \/ Len(day.meetings) > 0
  \/ Len(day.gitlabActivity.commits) > 0
  \/ Len(day.gitlabActivity.mergeRequests) > 0
  \/ Len(day.gitlabActivity.issues) > 0

\* Positions are 1-based; -1 when no later day has activity.
RECURSIVE findNextActivityDayFrom(_, _)
findNextActivityDayFrom(acts, i) ==
  IF i > Len(acts) THEN -1
  ELSE IF hasAnyActivity(acts[i]) THEN i
  ELSE findNextActivityDayFrom(acts, i + 1)

findNextActivityDayLast(acts, startIndex) ==
  IF findNextActivityDayFrom(acts, startIndex + 1) = -1
    THEN Len(acts)
    ELSE findNextActivityDayFrom(acts, startIndex + 1)
findNextActivityDay(acts, startIndex) == findNextActivityDayFrom(acts, startIndex + 1)

MinOf(a, b) == IF a < b THEN a ELSE b

DistributedCommit(commit) == [commit EXCEPT !.message = <<"[Distributed]">> \o @]
DistributedTitle(item) == [item EXCEPT !.title = <<"[Distributed]">> \o @]

DistributionNote(gapSize) ==
  [message |-> <<"[Note]", gapSize>>, project |-> "System", branch |-> "distribution"]

\* The loop below as it would be with i <= activityIndex.
RECURSIVE DistributeFieldInclusive(_, _, _, _, _, _, _)
DistributeFieldInclusive(acts, field, source, perDay, i, activityIndex, index) ==
  IF i > activityIndex
    THEN [acts |-> acts, index |-> index]
    ELSE LET toAdd == MinOf(perDay, Len(source) - index)
             slice == [k \in 1..toAdd |->
                        IF field = "commits" THEN DistributedCommit(source[index + k])
                                             ELSE DistributedTitle(source[index + k])]
         IN IF toAdd > 0
              THEN DistributeFieldInclusive(
                     [acts EXCEPT ![i].gitlabActivity[field] = @ \o slice],
                     field, source, perDay, i + 1, activityIndex, index + toAdd)
              ELSE DistributeFieldInclusive(acts, field, source, perDay, i + 1,
                                            activityIndex, index)

\* One of the three loops of distributeWorkAcrossGap over the gap days
\* i..activityIndex-1 for the list named field: each gap day is pushed the
\* slice [index, index + perDay) of the source's list, marked; the result
\* is the days and the final index.
RECURSIVE DistributeField(_, _, _, _, _, _, _)
DistributeField(acts, field, source, perDay, i, activityIndex, index) ==
  IF i >= activityIndex
    THEN [acts |-> acts, index |-> index]
    ELSE LET toAdd == MinOf(perDay, Len(source) - index)
             slice == [k \in 1..toAdd |->
                        IF field = "commits" THEN DistributedCommit(source[index + k])
                                             ELSE DistributedTitle(source[index + k])]
         IN IF toAdd > 0
              THEN DistributeField([acts EXCEPT ![i].gitlabActivity[field] = @ \o slice],
                                   field, source, perDay, i + 1, activityIndex, index + toAdd)
              ELSE DistributeField(acts, field, source, perDay, i + 1, activityIndex, index)

\* The call as it would be with the note added unconditionally.
distributeWorkAcrossGapAlwaysNote(acts, gapStart, activityIndex, gapSize) ==
  LET sourceActivity == acts[activityIndex].gitlabActivity
      c == DistributeField(acts, "commits", sourceActivity.commits,
                           Len(sourceActivity.commits) \div (gapSize + 1),
                           gapStart, activityIndex, 0)
      m == DistributeField(c.acts, "mergeRequests", sourceActivity.mergeRequests,
                           Len(sourceActivity.mergeRequests) \div (gapSize + 1),
                           gapStart, activityIndex, 0)
      n == DistributeField(m.acts, "issues", sourceActivity.issues,
                           Len(sourceActivity.issues) \div (gapSize + 1),
                           gapStart, activityIndex, 0)
  IN [n.acts EXCEPT ![activityIndex].gitlabActivity.commits =
        <<DistributionNote(gapSize)>> \o @]

\* distributeWorkAcrossGap: the days after the call.  The source day keeps
\* every item it had and is given the note in front when anything was
\* distributed.
distributeWorkAcrossGap(acts, gapStart, activityIndex, gapSize) ==
  LET sourceActivity == acts[activityIndex].gitlabActivity
      commitsPerDay == Len(sourceActivity.commits) \div (gapSize + 1)
      mrsPerDay == Len(sourceActivity.mergeRequests) \div (gapSize + 1)
      issuesPerDay == Len(sourceActivity.issues) \div (gapSize + 1)
      c == DistributeField(acts, "commits", sourceActivity.commits, commitsPerDay,
                           gapStart, activityIndex, 0)
      m == DistributeField(c.acts, "mergeRequests", sourceActivity.mergeRequests, mrsPerDay,
                           gapStart, activityIndex, 0)
      n == DistributeField(m.acts, "issues", sourceActivity.issues, issuesPerDay,
                           gapStart, activityIndex, 0)
  IN IF c.index > 0 \/ m.index > 0 \/ n.index > 0
       THEN [n.acts EXCEPT ![activityIndex].gitlabActivity.commits =
               <<DistributionNote(gapSize)>> \o @]
       ELSE n.acts

\* The for loop of distributeActivities from position i on.
RECURSIVE DistributeLoop(_, _, _, _)
DistributeLoop(distributed, i, gapDays, distributedDays) ==
  IF i > Len(distributed)
    THEN [activities |-> distributed, gapDays |-> gapDays, distributedDays |-> distributedDays]
    ELSE IF hasAnyActivity(distributed[i])
      THEN DistributeLoop(distributed, i + 1, gapDays, distributedDays)
      ELSE LET nextActivityIndex == findNextActivityDay(distributed, i)
               gapSize == nextActivityIndex - i
           IN IF nextActivityIndex # -1
                THEN DistributeLoop(
                       distributeWorkAcrossGap(distributed, i, nextActivityIndex, gapSize),
                       i + 1, gapDays + gapSize, distributedDays + 1)
                ELSE DistributeLoop(distributed, i + 1, gapDays, distributedDays)

distributeActivities(acts) ==
  LET r == DistributeLoop(SortByDate(acts), 1, 0, 0)
  IN [activities |-> r.activities,
      distributionInfo |->
        [daysWithGaps |-> r.gapDays,
         daysDistributed |-> r.distributedDays,
         message |-> IF r.distributedDays > 0 THEN <<"Note", r.gapDays>> ELSE <<>>]]

\* message.substring(0, 50) / title.substring(0, 50) on a token sequence.
Substring50(text) == SubSeq(text, 1, MinOf(50, Len(text)))

\* summarizeWork: the parts, or 'project work' when there is none.
summarizeWork(activity) ==
  LET parts ==
        (IF Len(activity.gitlabActivity.commits) > 0
           THEN <<Substring50(activity.gitlabActivity.commits[1].message)>> ELSE <<>>)
        \o (IF Len(activity.gitlabActivity.mergeRequests) > 0
              THEN <<Substring50(activity.gitlabActivity.mergeRequests[1].title)>> ELSE <<>>)
        \o (IF Len(activity.gitlabActivity.issues) > 0
              THEN <<Substring50(activity.gitlabActivity.issues[1].title)>> ELSE <<>>)
  IN IF parts = <<>> THEN <<"project work">> ELSE parts

phaseNames ==
  <<"Planning", "Research", "Design", "Implementation", "Testing", "Refinement",
    "Documentation">>

\* The method as it would be without the cyclic index: at most seven phases.
generateWorkPhasesNoWrap(gapSize, sourceActivity) ==
  LET workSummary == summarizeWork(sourceActivity)
      Phase(name) == <<"[Phase]", name, workSummary>>
  IN CASE gapSize = 1 -> <<Phase("Research & Planning")>>
       [] gapSize = 2 -> <<Phase("Analysis"), Phase("Development")>>
       [] gapSize = 3 -> <<Phase("Planning"), Phase("Implementation"), Phase("Testing")>>
       [] OTHER -> [i \in 1..MinOf(gapSize, Len(phaseNames)) |-> Phase(phaseNames[i])]

\* generateWorkPhases: one phase text per gap day.
generateWorkPhases(gapSize, sourceActivity) ==
  LET workSummary == summarizeWork(sourceActivity)
      Phase(name) == <<"[Phase]", name, workSummary>>
  IN CASE gapSize = 1 -> <<Phase("Research & Planning")>>
       [] gapSize = 2 -> <<Phase("Analysis"), Phase("Development")>>
       [] gapSize = 3 -> <<Phase("Planning"), Phase("Implementation"), Phase("Testing")>>
       [] OTHER -> [i \in 1..gapSize |-> Phase(phaseNames[((i - 1) % Len(phaseNames)) + 1])]

\* distributeWorkPhases: each gap day is pushed its phase as a synthetic
\* commit.
PushPhasesOntoSource(acts, phases, gapStart, activityIndex, i) ==
  [acts EXCEPT ![activityIndex].gitlabActivity.commits =
     Append(@, [message |-> phases[1], project |-> "Distributed Work",
                branch |-> "phase-distribution"])]
RECURSIVE PushPhases(_, _, _, _, _)
PushPhases(acts, phases, gapStart, activityIndex, i) ==
  IF i < Len(phases) /\ gapStart + i < activityIndex
    THEN PushPhases(
           [acts EXCEPT ![gapStart + i].gitlabActivity.commits =
              Append(@, [message |-> phases[i + 1], project |-> "Distributed Work",
                         branch |-> "phase-distribution"])],
           phases, gapStart, activityIndex, i + 1)
    ELSE acts

distributeWorkPhases(acts, gapStart, activityIndex, gapSize, sourceActivity) ==
  PushPhases(acts, generateWorkPhases(gapSize, sourceActivity), gapStart, activityIndex, 0)

\* The for loop of distributeActivitiesIntelligent from position i on.
RECURSIVE IntelligentLoop(_, _, _, _)
IntelligentLoop(distributed, i, gapDays, distributedDays) ==
  IF i > Len(distributed)
    THEN [activities |-> distributed, gapDays |-> gapDays, distributedDays |-> distributedDays]
    ELSE IF hasAnyActivity(distributed[i])
      THEN IntelligentLoop(distributed, i + 1, gapDays, distributedDays)
      ELSE LET nextActivityIndex == findNextActivityDay(distributed, i)
               gapSize == nextActivityIndex - i
           IN IF nextActivityIndex # -1
                THEN IntelligentLoop(
                       distributeWorkPhases(distributed, i, nextActivityIndex, gapSize,
                                            distributed[nextActivityIndex]),
                       i + 1, gapDays + gapSize, distributedDays + 1)
                ELSE IntelligentLoop(distributed, i + 1, gapDays, distributedDays)

distributeActivitiesIntelligent(acts) ==
  LET r == IntelligentLoop(SortByDate(acts), 1, 0, 0)
  IN [activities |-> r.activities,
      distributionInfo |->
        [daysWithGaps |-> r.gapDays,
         daysDistributed |-> r.distributedDays,
         message |-> IF r.distributedDays > 0 THEN <<"Note", r.gapDays>> ELSE <<>>]]

\* const distributed = [...activities]: the method sorts and returns a copy of
\* the array, whose elements are the caller's own day records.  The caller's
\* array after the call: every position refers to the record it referred to,
\* as the method left it.
SpreadCopy(array, distributed) ==
  [i \in 1..Len(array) |->
     distributed[CHOOSE j \in 1..Len(distributed) : distributed[j].date = array[i].date]]

DistInit ==
  /\ cache = EmptyCache
  /\ cacheStats = ZeroStats
  /\ cacheTTL = DEFAULT_CACHE_TTL
  /\ file = NoFile
  /\ now = 0
  /\ ticks = 0
  /\ tzEast = FALSE
  /\ last = NoCall
  /\ calls = 0
  /\ wfailed = FALSE
  /\ OrchIdle
  /\ ToolIdle
  /\ OAuthIdle
  /\ GoogleIdle
  /\ FlowIdle
  /\ activities \in DistInputs
  /\ callerArray = activities
  /\ distribution = NoResult
  /\ mode = "none"

\* The caller runs the proportional mode on its list.
Distribute ==
  /\ distribution = NoResult
  /\ distribution' = distributeActivities(activities)
  /\ callerArray' = SpreadCopy(callerArray, distribution'.activities)
  /\ mode' = "proportional"
  /\ UNCHANGED activities
  /\ UNCHANGED cacheVars
  /\ UNCHANGED orchVars
  /\ UNCHANGED toolVars
  /\ UNCHANGED oauthVars
  /\ UNCHANGED googleVars
  /\ UNCHANGED flowVars

\* The caller runs the intelligent mode on its list.
DistributeIntelligent ==
  /\ distribution = NoResult
  /\ distribution' = distributeActivitiesIntelligent(activities)
  /\ callerArray' = SpreadCopy(callerArray, distribution'.activities)
  /\ mode' = "intelligent"
  /\ UNCHANGED activities
  /\ UNCHANGED cacheVars
  /\ UNCHANGED orchVars
  /\ UNCHANGED toolVars
  /\ UNCHANGED oauthVars
  /\ UNCHANGED googleVars
  /\ UNCHANGED flowVars

NextDist == Distribute \/ DistributeIntelligent

SpecDist == DistInit /\ [][NextDist]_vars

\* A day of a list made for generateWorkPhases: empty, with one commit or
\* with one meeting.
PhaseKinds ==
  {[meetings |-> 0, commits |-> 0], [meetings |-> 0, commits |-> 1],
   [meetings |-> 1, commits |-> 0]}

\* The list, in date order, whose i-th day is of kind k[i].
PhaseInput(k) == [i \in DOMAIN k |-> Day(i, k[i].meetings, k[i].commits, 0, 0)]

PhaseInit ==
  /\ cache = EmptyCache
  /\ cacheStats = ZeroStats
  /\ cacheTTL = DEFAULT_CACHE_TTL
  /\ file = NoFile
  /\ now = 0
  /\ ticks = 0
  /\ tzEast = FALSE
  /\ last = NoCall
  /\ calls = 0
  /\ wfailed = FALSE
  /\ OrchIdle
  /\ ToolIdle
  /\ OAuthIdle
  /\ GoogleIdle
  /\ FlowIdle
  /\ \E n \in 1..MaxPhaseDays : \E k \in [1..n -> PhaseKinds] : activities = PhaseInput(k)
  /\ callerArray = activities
  /\ distribution = NoResult
  /\ mode = "none"

SpecPhase == PhaseInit /\ [][DistributeIntelligent]_vars

\* ------------------------------------------------------- the tool handlers
\* An argument of a tool call: not given, a string that does not match
\* /^\d{4}-\d{2}-\d{2}$/, or the date of a day.
Absent == [kind |-> "absent", day |-> 0]
Malformed == [kind |-> "malformed", day |-> 0]
DateArgs == {Absent, Malformed} \cup {[kind |-> "date", day |-> d] : d \in Days}

\* The fetch tools the CallTool handler dispatches to.
Tools == {"fetch_gitlab_activity", "fetch_google_calendar_events"}

Requests ==
  [tool : Tools, date : DateArgs, start_date : DateArgs, end_date : DateArgs,
   force_refresh : {"absent", "false", "true"}]

\* const forceRefresh = args?.force_refresh ?? false
ForceRefreshUnlessFalse(r) == r.force_refresh # "false"
ForceRefresh(r) == r.force_refresh = "true"

\* What a handler keeps of a day it fetched: the value and fromCache.
Fetched(value, fromCache) == [value |-> value, fromCache |-> fromCache]

\* if (args.x): the argument is a non-empty string.
Truthy(a) == a.kind # "absent"

\* /^\d{4}-\d{2}-\d{2}$/.test(x)
MatchesFormat(a) == a.kind = "date"

\* The catch of the CallTool handler, and what it would leave were the error
\* thrown on.
ErrorResponseRethrown(message) == NoResponse
ErrorResponse(message) == [kind |-> "error", message |-> message, days |-> EmptyMap]
TextResponse(days) == [kind |-> "text", message |-> "", days |-> days]

\* The marker a commit tool reports for a future day.
FutureDay == [isFuture |-> TRUE]

ToolNamespace(tool) ==
  IF tool = "fetch_gitlab_activity" THEN "gitlab" ELSE "googleCalendar"

\* handleFetchGitLabActivity / handleFetchGoogleCalendarEvents from the
\* credentials check to the first await of the Single or Range handler it
\* dispatches to: the error thrown, the future-date response returned, or
\* the days the handler goes on to fetch.
Dispatch(r, conf, tod) ==
  IF ~conf
    THEN [kind |-> "throw", message |-> "not configured", from |-> 0, to |-> 0]
    ELSE IF Truthy(r.start_date) /\ Truthy(r.end_date)
      THEN IF ~MatchesFormat(r.start_date) \/ ~MatchesFormat(r.end_date)
             THEN [kind |-> "throw", message |-> "Invalid date format", from |-> 0, to |-> 0]
             ELSE IF r.start_date.day > r.end_date.day
               THEN [kind |-> "throw",
                     message |-> "start_date must be before or equal to end_date",
                     from |-> 0, to |-> 0]
               ELSE [kind |-> "fetch", message |-> "",
                     from |-> r.start_date.day, to |-> r.end_date.day]
      ELSE IF Truthy(r.date)
        THEN IF ~MatchesFormat(r.date)
               THEN [kind |-> "throw", message |-> "Invalid date format", from |-> 0, to |-> 0]
               ELSE IF r.tool = "fetch_gitlab_activity" /\ r.date.day > tod
                 THEN [kind |-> "future", message |-> "", from |-> r.date.day, to |-> r.date.day]
                 ELSE [kind |-> "fetch", message |-> "", from |-> r.date.day, to |-> r.date.day]
        ELSE [kind |-> "throw",
              message |-> "Either date OR start_date+end_date must be provided",
              from |-> 0, to |-> 0]

\* endDate of the handler that is running.
EndDate == Dispatch(request, configured, today).to

\* Content of a cache file that is not JSON text: JSON.parse throws.
NotJSON == [garbage |-> TRUE]

\* Content of a cache file that is JSON text but not a store: the object {}.
NotAStore == EmptyMap

\* The cache file the server finds when it starts: none (readFile rejects),
\* or one that this program's save() did not write.
FoundFiles == {NoFile, FileOf(NotJSON), FileOf(NotAStore)}

\* ActivityCache.load(): the store after reading file f.
load(f) ==
  IF ~f.exists \/ f.content = NotJSON THEN EmptyCache ELSE f.content

\* this.cache.gitlab / .googleCalendar is an object of store c.
HasNamespace(c, ns) == ns \in DOMAIN c

ToolInit ==
  /\ cache = EmptyCache
  /\ cacheStats = ZeroStats
  /\ cacheTTL = DEFAULT_CACHE_TTL
  /\ file \in FoundFiles
  /\ now = 0
  /\ ticks = 0
  /\ tzEast \in BOOLEAN
  /\ last = NoCall
  /\ calls = 0
  /\ wfailed = FALSE
  /\ OrchIdle
  /\ DistIdle
  /\ today \in Days
  /\ configured \in BOOLEAN
  /\ request = NoRequest
  /\ toolPc = "idle"
  /\ currentDate = 0
  /\ allActivities = EmptyMap
  /\ io = NoIO
  /\ response = NoResponse
  /\ requests = 0
  /\ OAuthIdle
  /\ GoogleIdle
  /\ FlowIdle

\* Date.now() advances between two tool calls: by a millisecond, or past the
\* TTL.
ToolTick ==
  /\ toolPc = "idle"
  /\ requests > 0
  /\ ticks < MaxTicks
  /\ \E delta \in {1, DEFAULT_CACHE_TTL + 1} : now' = now + delta
  /\ ticks' = ticks + 1
  /\ UNCHANGED <<cache, cacheStats, cacheTTL, file, tzEast, last, calls, wfailed>>
  /\ UNCHANGED orchVars
  /\ UNCHANGED distVars
  /\ UNCHANGED toolVars
  /\ UNCHANGED oauthVars
  /\ UNCHANGED googleVars
  /\ UNCHANGED flowVars

\* A client calls one of the fetch tools.
CallTool ==
  /\ toolPc = "idle"
  /\ requests < MaxRequests
  /\ \E r \in Requests : request' = r
  /\ requests' = requests + 1
  /\ toolPc' = "tokenStorage.load"
  /\ io' = NoIO
  /\ response' = NoResponse
  /\ allActivities' = EmptyMap
  /\ currentDate' = 0
  /\ UNCHANGED <<today, configured>>
  /\ UNCHANGED cacheVars
  /\ UNCHANGED orchVars
  /\ UNCHANGED distVars
  /\ UNCHANGED oauthVars
  /\ UNCHANGED googleVars
  /\ UNCHANGED flowVars

\* A call that names no tool of the switch: the arguments are not looked at.
UnknownTool ==
  [tool |-> "unknown_tool", date |-> Absent, start_date |-> Absent, end_date |-> Absent,
   force_refresh |-> "absent"]

\* A client calls a tool the switch has no case for: default throws at once
\* and the catch answers.
CallUnknownTool ==
  /\ toolPc = "idle"
  /\ requests < MaxRequests
  /\ request' = UnknownTool
  /\ requests' = requests + 1
  /\ response' = ErrorResponse("Unknown tool")
  /\ io' = NoIO
  /\ allActivities' = EmptyMap
  /\ currentDate' = 0
  /\ UNCHANGED <<today, configured, toolPc>>
  /\ UNCHANGED cacheVars
  /\ UNCHANGED orchVars
  /\ UNCHANGED distVars
  /\ UNCHANGED oauthVars
  /\ UNCHANGED googleVars
  /\ UNCHANGED flowVars

\* await this.tokenStorage.load() reads the token file.
LoadTokens ==
  /\ toolPc = "tokenStorage.load"
  /\ io' = [io EXCEPT !.reads = @ \cup {"tokens"}]
  /\ toolPc' = "activityCache.load"
  /\ UNCHANGED <<today, configured, request, currentDate, allActivities, response, requests>>
  /\ UNCHANGED cacheVars
  /\ UNCHANGED orchVars
  /\ UNCHANGED distVars
  /\ UNCHANGED oauthVars
  /\ UNCHANGED googleVars
  /\ UNCHANGED flowVars

\* await this.activityCache.load() replaces the store by the parsed cache
\* file, or by an empty store when the file cannot be read.
LoadCache ==
  /\ toolPc = "activityCache.load"
  /\ cache' = load(file)
  /\ io' = [io EXCEPT !.reads = @ \cup {"cache"}]
  /\ toolPc' = "loadConfig"
  /\ UNCHANGED <<today, configured, request, currentDate, allActivities, response, requests>>
  /\ UNCHANGED <<cacheStats, cacheTTL, file, now, ticks, tzEast, last, calls, wfailed>>
  /\ UNCHANGED orchVars
  /\ UNCHANGED distVars
  /\ UNCHANGED oauthVars
  /\ UNCHANGED googleVars
  /\ UNCHANGED flowVars

\* await this.loadConfig() reads config.json; the handler then checks the
\* credentials, dispatches on the arguments and validates them, up to the
\* await of the adapter's initialize.
LoadConfig ==
  /\ toolPc = "loadConfig"
  /\ io' = [io EXCEPT !.reads = @ \cup {"config"}]
  /\ LET v == Dispatch(request, configured, today)
     IN CASE v.kind = "throw" ->
               /\ response' = ErrorResponse(v.message)
               /\ toolPc' = "idle"
               /\ UNCHANGED currentDate
          [] v.kind = "future" ->
               /\ response' = TextResponse(Put(EmptyMap, v.from, FutureDay))
               /\ toolPc' = "idle"
               /\ UNCHANGED currentDate
          [] v.kind = "fetch" ->
               /\ toolPc' = "initialize"
               /\ currentDate' = v.from
               /\ UNCHANGED response
  /\ UNCHANGED <<today, configured, request, allActivities, requests>>
  /\ UNCHANGED cacheVars
  /\ UNCHANGED orchVars
  /\ UNCHANGED distVars
  /\ UNCHANGED oauthVars
  /\ UNCHANGED googleVars
  /\ UNCHANGED flowVars

\* await this.gitlab.initialize(...) / this.googleCalendar.initialize(...)
Initialize ==
  /\ toolPc = "initialize"
  /\ toolPc' = "loop"
  /\ UNCHANGED <<today, configured, request, currentDate, allActivities, io, response, requests>>
  /\ UNCHANGED cacheVars
  /\ UNCHANGED orchVars
  /\ UNCHANGED distVars
  /\ UNCHANGED oauthVars
  /\ UNCHANGED googleVars
  /\ UNCHANGED flowVars

\* The handler has fetched every day it was asked for and returns its text.
Respond ==
  /\ toolPc = "loop"
  /\ currentDate > EndDate
  /\ response' = TextResponse(allActivities)
  /\ toolPc' = "idle"
  /\ UNCHANGED <<today, configured, request, currentDate, allActivities, io, requests>>
  /\ UNCHANGED cacheVars
  /\ UNCHANGED orchVars
  /\ UNCHANGED distVars
  /\ UNCHANGED oauthVars
  /\ UNCHANGED googleVars
  /\ UNCHANGED flowVars

\* One pass of while (currentDate <= endDate) of handleFetchGitLabActivityRange:
\* a day after today is recorded as future without a lookup.
SkipFutureDay ==
  /\ toolPc = "loop"
  /\ currentDate <= EndDate
  /\ request.tool = "fetch_gitlab_activity"
  /\ currentDate > today
  /\ allActivities' = Put(allActivities, currentDate, FutureDay)
  /\ currentDate' = currentDate + 1
  /\ UNCHANGED <<today, configured, request, toolPc, io, response, requests>>
  /\ UNCHANGED cacheVars
  /\ UNCHANGED orchVars
  /\ UNCHANGED distVars
  /\ UNCHANGED oauthVars
  /\ UNCHANGED googleVars
  /\ UNCHANGED flowVars

\* The handler fetches currentDate.
FetchesDay ==
  /\ toolPc = "loop"
  /\ currentDate <= EndDate
  /\ request.tool = "fetch_gitlab_activity" => currentDate <= today

\* fetchGitLabActivityWithCache / fetchCalendarEventsWithCache(dateStr, true,
\* false, forceRefresh) finds the day in the cache: the day is done.
LookupHit ==
  /\ FetchesDay
  /\ ~ForceRefresh(request)
  /\ HasNamespace(cache, ToolNamespace(request.tool))
  /\ LET ns == ToolNamespace(request.tool)
         got == CacheGet(cache, cacheStats, cacheTTL, ns, getDateKey(currentDate, tzEast), now)
     IN /\ got.hit
        /\ cache' = got.cache
        /\ cacheStats' = got.stats
        /\ allActivities' = Put(allActivities, currentDate, Fetched(got.data, TRUE))
  /\ io' = [io EXCEPT !.lookups = @ \cup {currentDate}]
  /\ currentDate' = currentDate + 1
  /\ UNCHANGED <<today, configured, request, toolPc, response, requests>>
  /\ UNCHANGED <<cacheTTL, file, now, ticks, tzEast, last, calls, wfailed>>
  /\ UNCHANGED orchVars
  /\ UNCHANGED distVars
  /\ UNCHANGED oauthVars
  /\ UNCHANGED googleVars
  /\ UNCHANGED flowVars

\* The store has no object for the namespace: reading this.cache.gitlab[key]
\* or this.cache.googleCalendar[key] throws a TypeError, outside any try; the
\* CallTool handler turns it into an error text.
LookupThrows ==
  /\ FetchesDay
  /\ ~ForceRefresh(request)
  /\ ~HasNamespace(cache, ToolNamespace(request.tool))
  /\ io' = [io EXCEPT !.lookups = @ \cup {currentDate}]
  /\ response' = ErrorResponse("TypeError")
  /\ toolPc' = "idle"
  /\ UNCHANGED <<today, configured, request, currentDate, allActivities, requests>>
  /\ UNCHANGED cacheVars
  /\ UNCHANGED orchVars
  /\ UNCHANGED distVars
  /\ UNCHANGED oauthVars
  /\ UNCHANGED googleVars
  /\ UNCHANGED flowVars

\* The lookup misses, or is skipped by force_refresh: the handler calls the
\* adapter and waits for it.
LookupMiss ==
  /\ FetchesDay
  /\ IF ForceRefresh(request)
       THEN /\ UNCHANGED <<cache, cacheStats>>
            /\ io' = [io EXCEPT !.calls = @ \cup {currentDate}]
       ELSE LET ns == ToolNamespace(request.tool)
                got == CacheGet(cache, cacheStats, cacheTTL, ns,
                                getDateKey(currentDate, tzEast), now)
            IN /\ HasNamespace(cache, ns)
               /\ ~got.hit
               /\ cache' = got.cache
               /\ cacheStats' = got.stats
               /\ io' = [io EXCEPT !.lookups = @ \cup {currentDate},
                                   !.calls = @ \cup {currentDate}]
  /\ toolPc' = "adapter"
  /\ UNCHANGED <<today, configured, request, currentDate, allActivities, response, requests>>
  /\ UNCHANGED <<cacheTTL, file, now, ticks, tzEast, last, calls, wfailed>>
  /\ UNCHANGED orchVars
  /\ UNCHANGED distVars
  /\ UNCHANGED oauthVars
  /\ UNCHANGED googleVars
  /\ UNCHANGED flowVars

\* setGitLabActivity / setGoogleCalendarEvents of the value the adapter
\* returned.  In a store without the namespace the assignment throws a
\* TypeError: fetchGitLabActivityWithCache lets it through, in
\* fetchCalendarEventsWithCache the set is inside the try and the meetings
\* already assigned are returned.
SetOrThrow(data) ==
  IF HasNamespace(cache, ToolNamespace(request.tool))
    THEN /\ cache' = CachePut(cache, ToolNamespace(request.tool),
                              getDateKey(currentDate, tzEast), data, now)
         /\ toolPc' = "save"
         /\ UNCHANGED <<currentDate, allActivities, response>>
    ELSE IF request.tool = "fetch_gitlab_activity"
      THEN /\ response' = ErrorResponse("TypeError")
           /\ toolPc' = "idle"
           /\ UNCHANGED <<cache, currentDate, allActivities>>
      ELSE /\ allActivities' = Put(allActivities, currentDate, Fetched(data, FALSE))
           /\ currentDate' = currentDate + 1
           /\ toolPc' = "loop"
           /\ UNCHANGED <<cache, response>>

\* The adapter returns: the handler stores the value and waits for the save.
AdapterReturn ==
  /\ toolPc = "adapter"
  /\ LET data == IF request.tool = "fetch_gitlab_activity"
                   THEN getActivityForDate("gitlab", currentDate)
                   ELSE getEventsForDate("google", currentDate)
     IN SetOrThrow(data)
  /\ UNCHANGED <<today, configured, request, io, requests>>
  /\ UNCHANGED <<cacheStats, cacheTTL, file, now, ticks, tzEast, last, calls, wfailed>>
  /\ UNCHANGED orchVars
  /\ UNCHANGED distVars
  /\ UNCHANGED oauthVars
  /\ UNCHANGED googleVars
  /\ UNCHANGED flowVars

\* A request of the adapter to the remote API fails. The GitLab adapter
\* returns the empty activity it has built, which the handler stores; the
\* Google adapter throws, fetchCalendarEventsWithCache catches it and returns
\* no meetings.
AdapterFail ==
  /\ toolPc = "adapter"
  /\ IF request.tool = "fetch_gitlab_activity"
       THEN SetOrThrow(EmptyActivity(currentDate))
       ELSE /\ allActivities' = Put(allActivities, currentDate, Fetched(<<>>, FALSE))
            /\ currentDate' = currentDate + 1
            /\ toolPc' = "loop"
            /\ UNCHANGED <<cache, response>>
  /\ UNCHANGED <<today, configured, request, io, requests>>
  /\ UNCHANGED <<cacheStats, cacheTTL, file, now, ticks, tzEast, last, calls, wfailed>>
  /\ UNCHANGED orchVars
  /\ UNCHANGED distVars
  /\ UNCHANGED oauthVars
  /\ UNCHANGED googleVars
  /\ UNCHANGED flowVars

\* The value the handler has just stored for currentDate.
Stored == cache[ToolNamespace(request.tool)][getDateKey(currentDate, tzEast)].data

\* save() writes the cache file: the day is done.
SaveDone ==
  /\ toolPc = "save"
  /\ file' = FileOf(cache)
  /\ allActivities' = Put(allActivities, currentDate, Fetched(Stored, FALSE))
  /\ currentDate' = currentDate + 1
  /\ toolPc' = "loop"
  /\ UNCHANGED <<today, configured, request, io, response, requests>>
  /\ UNCHANGED <<cache, cacheStats, cacheTTL, now, ticks, tzEast, last, calls, wfailed>>
  /\ UNCHANGED orchVars
  /\ UNCHANGED distVars
  /\ UNCHANGED oauthVars
  /\ UNCHANGED googleVars
  /\ UNCHANGED flowVars

\* writeFile fails. fetchGitLabActivityWithCache lets the error through and
\* the CallTool handler turns it into an error text; in
\* fetchCalendarEventsWithCache the set is inside the try and the meetings
\* already assigned are returned.
SaveFail ==
  /\ toolPc = "save"
  /\ wfailed' = TRUE
  /\ IF request.tool = "fetch_gitlab_activity"
       THEN /\ response' = ErrorResponse("writeFile")
            /\ toolPc' = "idle"
            /\ UNCHANGED <<currentDate, allActivities>>
       ELSE /\ allActivities' = Put(allActivities, currentDate, Fetched(Stored, FALSE))
            /\ currentDate' = currentDate + 1
            /\ toolPc' = "loop"
            /\ UNCHANGED response
  /\ UNCHANGED <<today, configured, request, io, requests>>
  /\ UNCHANGED <<cache, cacheStats, cacheTTL, file, now, ticks, tzEast, last, calls>>
  /\ UNCHANGED orchVars
  /\ UNCHANGED distVars
  /\ UNCHANGED oauthVars
  /\ UNCHANGED googleVars
  /\ UNCHANGED flowVars

NextTool ==
  \/ ToolTick
  \/ CallTool
  \/ CallUnknownTool
  \/ LoadTokens
  \/ LoadCache
  \/ LoadConfig
  \/ Initialize
  \/ Respond
  \/ SkipFutureDay
  \/ LookupHit
  \/ LookupThrows
  \/ LookupMiss
  \/ AdapterReturn
  \/ AdapterFail
  \/ SaveDone
  \/ SaveFail

SpecTool == ToolInit /\ [][NextTool]_vars

\* The steps of a running handler: the continuations of its awaits.  Every
\* awaited file, cache or provider operation settles, fulfilled or rejected,
\* and the event loop then resumes the handler.
HandlerStep ==
  \/ LoadTokens
  \/ LoadCache
  \/ LoadConfig
  \/ Initialize
  \/ Respond
  \/ SkipFutureDay
  \/ LookupHit
  \/ LookupThrows
  \/ LookupMiss
  \/ AdapterReturn
  \/ AdapterFail
  \/ SaveDone
  \/ SaveFail

\* The server started on day 1 in a timezone at UTC: day 2 is a future day.
ToolLiveInit == ToolInit /\ ~tzEast /\ today = 1

SpecToolLive == ToolLiveInit /\ [][NextTool]_vars /\ WF_vars(HandlerStep)

\* -------------------------------------------------- the OAuth callback server
\* The ports runOAuthFlow lets start() try.
Ports == DefaultStartPort..DefaultEndPort

\* tryStartServer(port) resolves: listen succeeds unless the port is in use.
tryStartServerAnyPort(port, inUse) == TRUE
tryStartServer(port, inUse) == port \notin inUse

OAuthInit ==
  /\ cache = EmptyCache
  /\ cacheStats = ZeroStats
  /\ cacheTTL = DEFAULT_CACHE_TTL
  /\ file = NoFile
  /\ now = 0
  /\ ticks = 0
  /\ tzEast = FALSE
  /\ last = NoCall
  /\ calls = 0
  /\ wfailed = FALSE
  /\ OrchIdle
  /\ DistIdle
  /\ ToolIdle
  /\ portsInUse \in SUBSET Ports
  /\ oauthServer = NotStarted
  /\ GoogleIdle
  /\ FlowIdle

\* start(options) up to its first await: the loop begins at startPort.
Start ==
  /\ oauthServer.outcome = "none"
  /\ oauthServer' = [port |-> 0, trying |-> DefaultStartPort, outcome |-> "starting"]
  /\ UNCHANGED portsInUse
  /\ UNCHANGED cacheVars
  /\ UNCHANGED orchVars
  /\ UNCHANGED distVars
  /\ UNCHANGED toolVars
  /\ UNCHANGED googleVars
  /\ UNCHANGED flowVars

\* await this.tryStartServer(port) resolves: start() returns the port.
Listening ==
  /\ oauthServer.outcome = "starting"
  /\ tryStartServer(oauthServer.trying, portsInUse)
  /\ oauthServer' = [port |-> oauthServer.trying, trying |-> oauthServer.trying,
                     outcome |-> "listening"]
  /\ UNCHANGED portsInUse
  /\ UNCHANGED cacheVars
  /\ UNCHANGED orchVars
  /\ UNCHANGED distVars
  /\ UNCHANGED toolVars
  /\ UNCHANGED googleVars
  /\ UNCHANGED flowVars

\* await this.tryStartServer(port) rejects before endPort: the next port.
TryNextPort ==
  /\ oauthServer.outcome = "starting"
  /\ ~tryStartServer(oauthServer.trying, portsInUse)
  /\ oauthServer.trying # DefaultEndPort
  /\ oauthServer' = [oauthServer EXCEPT !.trying = @ + 1]
  /\ UNCHANGED portsInUse
  /\ UNCHANGED cacheVars
  /\ UNCHANGED orchVars
  /\ UNCHANGED distVars
  /\ UNCHANGED toolVars
  /\ UNCHANGED googleVars
  /\ UNCHANGED flowVars

\* await this.tryStartServer(endPort) rejects: start() throws.
NoAvailablePorts ==
  /\ oauthServer.outcome = "starting"
  /\ ~tryStartServer(oauthServer.trying, portsInUse)
  /\ oauthServer.trying = DefaultEndPort
  /\ oauthServer' = [oauthServer EXCEPT !.outcome = "No available ports"]
  /\ UNCHANGED portsInUse
  /\ UNCHANGED cacheVars
  /\ UNCHANGED orchVars
  /\ UNCHANGED distVars
  /\ UNCHANGED toolVars
  /\ UNCHANGED googleVars
  /\ UNCHANGED flowVars

NextOAuth == Start \/ Listening \/ TryNextPort \/ NoAvailablePorts

SpecOAuth == OAuthInit /\ [][NextOAuth]_vars

\* ---------------------------------------------------------- runOAuthFlow
\* this.server after stop(): null.
Stopped(server) == [port |-> 0, trying |-> server.trying, outcome |-> "stopped"]

\* this.server refers to a server: the one listening, or the one whose
\* listen failed on the last port tried.
HasServer(server) == server.outcome \in {"listening", "No available ports"}

\* OAuthServer.stop(): with no server, nothing; otherwise close() and
\* this.server = null.  close() calls back with an error when the server is
\* not running, and stop() then rejects.
stopLeavesListening(server) == [server |-> server, raised |-> FALSE]
stop(server) ==
  IF HasServer(server)
    THEN [server |-> Stopped(server), raised |-> server.outcome # "listening"]
    ELSE [server |-> server, raised |-> FALSE]

\* callbackResolve(value) and the timer's reject(...): a settled promise
\* stays as it is.
Settle(promise, value) == IF promise = "pending" THEN value ELSE promise

CallbackKinds == {"code", "error", "missing_code"}

FlowInit ==
  /\ cache = EmptyCache
  /\ cacheStats = ZeroStats
  /\ cacheTTL = DEFAULT_CACHE_TTL
  /\ file = NoFile
  /\ now = 0
  /\ ticks = 0
  /\ tzEast = FALSE
  /\ last = NoCall
  /\ calls = 0
  /\ wfailed = FALSE
  /\ OrchIdle
  /\ DistIdle
  /\ ToolIdle
  /\ GoogleIdle
  /\ portsInUse \in SUBSET Ports
  /\ oauthServer = NotStarted
  /\ oauthFlow = NoFlow

\* runOAuthFlow is called: new OAuthServer() and server.start(...) up to its
\* first await, the callbackPromise created and its timer set.
RunOAuthFlow ==
  /\ oauthFlow.pc = "idle"
  /\ oauthServer.outcome = "none"
  /\ oauthServer' = [port |-> 0, trying |-> DefaultStartPort, outcome |-> "starting"]
  /\ oauthFlow' = [oauthFlow EXCEPT !.pc = "server.start", !.callbackPromise = "pending"]
  /\ UNCHANGED portsInUse
  /\ UNCHANGED cacheVars
  /\ UNCHANGED orchVars
  /\ UNCHANGED distVars
  /\ UNCHANGED toolVars
  /\ UNCHANGED googleVars

\* start() returned the port: await openBrowser(authUrl), which catches the
\* failure of the launch; then waitForCallback() up to its await.
OpenBrowser ==
  /\ oauthFlow.pc = "server.start"
  /\ oauthServer.outcome = "listening"
  /\ \E launched \in {"opened", "failed"} :
       oauthFlow' = [oauthFlow EXCEPT !.pc = "waitForCallback", !.browser = launched]
  /\ UNCHANGED oauthVars
  /\ UNCHANGED cacheVars
  /\ UNCHANGED orchVars
  /\ UNCHANGED distVars
  /\ UNCHANGED toolVars
  /\ UNCHANGED googleVars

\* start() threw: the catch of runOAuthFlow wraps the error and the finally
\* block is entered.
StartThrows ==
  /\ oauthFlow.pc = "server.start"
  /\ oauthServer.outcome = "No available ports"
  /\ oauthFlow' = [oauthFlow EXCEPT !.pc = "finally",
                                     !.error = "OAuth flow failed: No available ports"]
  /\ UNCHANGED oauthVars
  /\ UNCHANGED cacheVars
  /\ UNCHANGED orchVars
  /\ UNCHANGED distVars
  /\ UNCHANGED toolVars
  /\ UNCHANGED googleVars

\* handleRequest for a request to /callback with an error, a code or
\* neither: callbackResolve is called with it.
HandleRequest ==
  /\ oauthServer.outcome = "listening"
  /\ Len(oauthFlow.received) < MaxCallbacks
  /\ \E kind \in CallbackKinds :
       oauthFlow' = [oauthFlow EXCEPT !.received = Append(@, kind),
                                      !.callbackPromise = Settle(@, kind)]
  /\ UNCHANGED oauthVars
  /\ UNCHANGED cacheVars
  /\ UNCHANGED orchVars
  /\ UNCHANGED distVars
  /\ UNCHANGED toolVars
  /\ UNCHANGED googleVars

\* The timer set by start() fires: reject(new Error('OAuth callback timeout')).
CallbackTimeout ==
  /\ oauthFlow.pc \in {"server.start", "waitForCallback"}
  /\ oauthFlow.callbackPromise = "pending"
  /\ oauthFlow' = [oauthFlow EXCEPT !.callbackPromise = "timeout"]
  /\ UNCHANGED oauthVars
  /\ UNCHANGED cacheVars
  /\ UNCHANGED orchVars
  /\ UNCHANGED distVars
  /\ UNCHANGED toolVars
  /\ UNCHANGED googleVars

\* await this.callbackPromise of waitForCallback settles: its finally block
\* stops the server; runOAuthFlow then has its result, or catches the
\* timeout and wraps it, and enters its own finally block.
WaitForCallback ==
  /\ oauthFlow.pc = "waitForCallback"
  /\ oauthFlow.callbackPromise # "pending"
  /\ LET stopped == stop(oauthServer)
     IN /\ oauthServer' = stopped.server
        /\ oauthFlow' =
             IF stopped.raised
               THEN [oauthFlow EXCEPT !.pc = "finally",
                                      !.error = "OAuth flow failed: server not running"]
               ELSE IF oauthFlow.callbackPromise = "timeout"
                 THEN [oauthFlow EXCEPT !.pc = "finally",
                                        !.error = "OAuth flow failed: OAuth callback timeout"]
                 ELSE [oauthFlow EXCEPT !.pc = "finally",
                                        !.result = oauthFlow.callbackPromise]
  /\ UNCHANGED portsInUse
  /\ UNCHANGED cacheVars
  /\ UNCHANGED orchVars
  /\ UNCHANGED distVars
  /\ UNCHANGED toolVars
  /\ UNCHANGED googleVars

\* finally { await server.stop() } of runOAuthFlow: the call ends with what
\* the try or catch block left, unless this stop() rejects.
Finally ==
  /\ oauthFlow.pc = "finally"
  /\ LET stopped == stop(oauthServer)
     IN /\ oauthServer' = stopped.server
        /\ oauthFlow' =
             IF stopped.raised
               THEN [oauthFlow EXCEPT !.pc = "done", !.result = "none",
                                      !.error = "server not running"]
               ELSE [oauthFlow EXCEPT !.pc = "done"]
  /\ UNCHANGED portsInUse
  /\ UNCHANGED cacheVars
  /\ UNCHANGED orchVars
  /\ UNCHANGED distVars
  /\ UNCHANGED toolVars
  /\ UNCHANGED googleVars

NextFlow ==
  \/ RunOAuthFlow
  \/ Listening
  \/ TryNextPort
  \/ NoAvailablePorts
  \/ OpenBrowser
  \/ StartThrows
  \/ HandleRequest
  \/ CallbackTimeout
  \/ WaitForCallback
  \/ Finally

SpecFlow == FlowInit /\ [][NextFlow]_vars

\* ------------------------------------------- the Google Calendar adapter
\* The counters of the running call stop counting at MaxAttempts.
CountUp(n) == IF n < MaxAttempts THEN n + 1 ELSE n

\* getEventsForDate(dateStr) from its first line to its first await: the
\* two checks, then the try block with the expiry test.
Enter(call, dateOk) ==
  IF ~call.initialized
    THEN [call EXCEPT !.pc = "raised", !.result = "Google Calendar not initialized"]
    ELSE IF ~dateOk
      THEN [call EXCEPT !.pc = "raised", !.result = "Date must be in YYYY-MM-DD format"]
      ELSE IF call.expired
        THEN [call EXCEPT !.pc = "refreshAccessToken"]
        ELSE [call EXCEPT !.pc = "events.list"]

\* return this.getEventsForDate(dateStr) of the catch block.
Retry(call) == Enter(call, TRUE)

GoogleInit ==
  /\ cache = EmptyCache
  /\ cacheStats = ZeroStats
  /\ cacheTTL = DEFAULT_CACHE_TTL
  /\ file = NoFile
  /\ now = 0
  /\ ticks = 0
  /\ tzEast = FALSE
  /\ last = NoCall
  /\ calls = 0
  /\ wfailed = FALSE
  /\ OrchIdle
  /\ DistIdle
  /\ ToolIdle
  /\ OAuthIdle
  /\ FlowIdle
  /\ \E i, e \in BOOLEAN :
       googleCall = [NoGoogleCall EXCEPT !.initialized = i, !.expired = e]

\* A caller calls getEventsForDate with a well-formed or malformed dateStr.
GetEventsForDate ==
  /\ googleCall.pc = "idle"
  /\ \E dateOk \in BOOLEAN : googleCall' = Enter(googleCall, dateOk)
  /\ UNCHANGED cacheVars
  /\ UNCHANGED orchVars
  /\ UNCHANGED distVars
  /\ UNCHANGED toolVars
  /\ UNCHANGED oauthVars
  /\ UNCHANGED flowVars

\* await this.refreshAccessToken() resolves, in the try block or in the
\* catch block: the call goes on to events.list, or calls itself again.
RefreshResolves ==
  /\ googleCall.pc \in {"refreshAccessToken", "catch.refreshAccessToken"}
  /\ LET refreshed == [googleCall EXCEPT !.expired = FALSE, !.refreshes = CountUp(@)]
     IN googleCall' = IF googleCall.pc = "refreshAccessToken"
                        THEN [refreshed EXCEPT !.pc = "events.list"]
                        ELSE Retry(refreshed)
  /\ UNCHANGED cacheVars
  /\ UNCHANGED orchVars
  /\ UNCHANGED distVars
  /\ UNCHANGED toolVars
  /\ UNCHANGED oauthVars
  /\ UNCHANGED flowVars

\* await this.refreshAccessToken() rejects.  In the try block the catch
\* looks at error.code; in the catch block the error leaves the method.
RefreshRejects ==
  /\ googleCall.pc \in {"refreshAccessToken", "catch.refreshAccessToken"}
  /\ \E code \in {401, 500} :
       googleCall' =
         IF googleCall.pc = "refreshAccessToken" /\ code = 401
           THEN [googleCall EXCEPT !.pc = "catch.refreshAccessToken"]
           ELSE [googleCall EXCEPT !.pc = "raised", !.result = "refresh failed"]
  /\ UNCHANGED cacheVars
  /\ UNCHANGED orchVars
  /\ UNCHANGED distVars
  /\ UNCHANGED toolVars
  /\ UNCHANGED oauthVars
  /\ UNCHANGED flowVars

\* await this.calendar.events.list(...) resolves: the events are returned.
ListResolves ==
  /\ googleCall.pc = "events.list"
  /\ googleCall' = [googleCall EXCEPT !.pc = "returned", !.result = "events",
                                       !.attempts = CountUp(@)]
  /\ UNCHANGED cacheVars
  /\ UNCHANGED orchVars
  /\ UNCHANGED distVars
  /\ UNCHANGED toolVars
  /\ UNCHANGED oauthVars
  /\ UNCHANGED flowVars

\* await this.calendar.events.list(...) rejects: with code 401 the catch
\* refreshes the token, any other error is thrown on.
ListRejects ==
  /\ googleCall.pc = "events.list"
  /\ \E code \in {401, 500} :
       googleCall' =
         IF code = 401
           THEN [googleCall EXCEPT !.pc = "catch.refreshAccessToken",
                                   !.attempts = CountUp(@)]
           ELSE [googleCall EXCEPT !.pc = "raised", !.result = "list failed",
                                   !.attempts = CountUp(@)]
  /\ UNCHANGED cacheVars
  /\ UNCHANGED orchVars
  /\ UNCHANGED distVars
  /\ UNCHANGED toolVars
  /\ UNCHANGED oauthVars
  /\ UNCHANGED flowVars

\* The continuations of the call's awaits.
GoogleStep == RefreshResolves \/ RefreshRejects \/ ListResolves \/ ListRejects

NextGoogle ==
  \/ GetEventsForDate
  \/ RefreshResolves
  \/ RefreshRejects
  \/ ListResolves
  \/ ListRejects

\* Every request to Google is answered, one way or the other.
SpecGoogle == GoogleInit /\ [][NextGoogle]_vars /\ WF_vars(GoogleStep)

\* ------------------------------------------------------------ the claims
CommitProviders == {"gitlab", "github"}

\* Every day of the running pass has resolved: Promise.all is about to
\* resolve to PassValue.
AllResolved == phase = "running" /\ Len(settled) = Len(reqDays)
PassValue == PromiseAll(Len(reqDays), dayResult, settled)

\* The fetch tasks of the running pass that failed, as <<position, provider>>:
\* the adapter raised.
Raised ==
  {<<i, p>> \in (1..Len(reqDays)) \X CommitProviders : task[i][p].adapter = "raised"}
  \cup {<<i, "google">> : i \in {j \in 1..Len(reqDays) : task[j].calendar.g = "error"}}
  \cup {<<i, "outlook">> : i \in {j \in 1..Len(reqDays) : task[j].calendar.o = "error"}}

\* What commit provider p contributed to the value returned for position i:
\* its task's value, or nothing if the task is disabled or failed.
Contribution(i, p) ==
  IF task[i][p].pc = "done" THEN task[i][p].val ELSE EmptyActivity(reqDays[i])

\* C2: if exactly one provider's fetch raised on exactly one day of the pass
\* and nothing else failed, the pass returns one entry per requested day, the
\* failing provider contributes nothing on that day, and every other enabled
\* provider contributes on every day exactly what its adapter returns for
\* that day.
C2_OneFailureIsolated ==
  (/\ AllResolved /\ Cardinality(Raised) = 1 /\ ~wfailed
   /\ \A i \in 1..Len(reqDays), p \in CommitProviders : task[i][p].adapter # "failed") =>
    /\ Len(PassValue) = Len(reqDays)
    /\ \A i \in 1..Len(reqDays) :
         /\ PassValue[i].activity.gitlabActivity
              = mergeGitActivities(Contribution(i, "gitlab"), Contribution(i, "github"))
         /\ \A p \in CommitProviders :
              /\ task[i][p].adapter = "raised" => Contribution(i, p) = EmptyActivity(reqDays[i])
              /\ (auth[p] /\ task[i][p].adapter # "raised")
                   => Contribution(i, p) = getActivityForDate(p, reqDays[i])

\* C3: the i-th element of the value fetchMultipleDaysParallel returns is
\* the DayActivity of the i-th input day, whatever order the days' fetches
\* completed in.
C3_ResultInInputOrder ==
  /\ AllResolved =>
       /\ Len(PassValue) = Len(reqDays)
       /\ \A i \in 1..Len(reqDays) :
            /\ PassValue[i].activity.date = reqDays[i]
            /\ PassValue[i] = BuildDay(reqDays[i], task[i])
  /\ \A k \in 1..Len(returned) :
       /\ Len(returned[k].value) = Len(returned[k].days)
       /\ \A i \in 1..Len(returned[k].days) :
            returned[k].value[i].activity.date = returned[k].days[i]

\* A pass over two days has returned whose second day completed first.
C3_Witness ==
  /\ AllResolved
  /\ Len(reqDays) = 2
  /\ settled = <<2, 1>>
  /\ PassValue[1].activity.date = reqDays[1]
  /\ PassValue[2].activity.date = reqDays[2]

\* The writes of the cache file in progress: the tasks suspended in save().
WritesInProgress ==
  {<<i, p>> \in (1..Len(reqDays)) \X CommitProviders : task[i][p].pc = "saving"}
  \cup {<<i, "calendar">> : i \in {j \in 1..Len(reqDays) :
                                     task[j].calendar.pc \in {"g_saving", "o_saving"}}}

\* C4: at no moment are two writes of the cache file in progress at once.
C4_WritesSerialized == Cardinality(WritesInProgress) <= 1

\* C5: once every set of the pass has returned, none of them having failed,
\* the persisted file holds every entry of the in-memory store.
C5_FileHoldsEverySet ==
  (file.exists /\ ~wfailed /\ WritesInProgress = {}) =>
    \A ns \in Namespaces : \A k \in DOMAIN cache[ns] :
      /\ k \in DOMAIN file.content[ns]
      /\ file.content[ns][k] = cache[ns][k]

\* The commits of a result day that are not the distribution note.
NonMarker(commits) == SelectSeq(commits, LAMBDA c : Head(c.message) # "[Note]")

\* The gaps of the sorted input: <<g, s>> where day s has commits and days
\* g..s-1, all without activity, are the maximal run of empty days before it.
Gaps(sorted) ==
  {<<g, s>> \in (1..Len(sorted)) \X (1..Len(sorted)) :
     /\ g < s
     /\ Len(sorted[s].gitlabActivity.commits) > 0
     /\ \A i \in g..(s - 1) : ~hasAnyActivity(sorted[i])
     /\ g > 1 => hasAnyActivity(sorted[g - 1])}

RECURSIVE SumLen(_, _, _)
SumLen(acts, i, j) ==
  IF i > j THEN 0 ELSE Len(acts[i].gitlabActivity.commits) + SumLen(acts, i + 1, j)

\* C6: the proportional mode conserves commits: for a gap of G empty days
\* before a source day with C commits, the commits on the G backfilled days
\* plus the original (non-marker) commits left on the source day number C.
C6_CommitsConserved ==
  mode = "proportional" =>
    \A gap \in Gaps(SortByDate(activities)) :
      SumLen(distribution.activities, gap[1], gap[2] - 1)
        + Len(NonMarker(distribution.activities[gap[2]].gitlabActivity.commits))
      = Len(SortByDate(activities)[gap[2]].gitlabActivity.commits)

\* What both commit providers' data merge to for day d.
FreshMerge(d) ==
  mergeGitActivities(getActivityForDate("gitlab", d), getActivityForDate("github", d))

\* C7: with both commit providers enabled, a second pass for the same days
\* that is served from the cache returns the merged payloads the first
\* pass, served by fresh fetches, returned.
C7_RepeatedPassSamePayload ==
  (/\ Len(returned) = 2
   /\ \A k \in {1, 2} : returned[k].auth.gitlab /\ returned[k].auth.github
   /\ returned[1].days = returned[2].days
   /\ \A i \in 1..Len(returned[1].days) :
        /\ returned[1].value[i].activity.gitlabActivity = FreshMerge(returned[1].days[i])
        /\ returned[2].value[i].cacheInfo.gitlab /\ returned[2].value[i].cacheInfo.github)
  => \A i \in 1..Len(returned[1].days) :
       returned[2].value[i].activity.gitlabActivity
         = returned[1].value[i].activity.gitlabActivity

\* C8: a cache hit of provider P's task for day D returns a payload that P's
\* own adapter produced for D.
C8_HitReturnsOwnPayload ==
  \A i \in 1..Len(reqDays) :
    /\ \A p \in CommitProviders :
         (task[i][p].pc = "done" /\ task[i][p].fromCache)
           => task[i][p].val \in {getActivityForDate(p, reqDays[i]), EmptyActivity(reqDays[i])}
    /\ (task[i].calendar.pc = "done" /\ task[i].calendar.g = "hit")
           => task[i].calendar.val = getEventsForDate("google", reqDays[i])
    /\ (task[i].calendar.pc = "done" /\ task[i].calendar.o = "hit")
           => task[i].calendar.val = getEventsForDate("outlook", reqDays[i])

\* C9: with both calendar providers enabled, whenever Google yielded zero
\* events without error, from a fresh fetch or from a cache hit, the
\* calendar task went on to Outlook's cache/fetch.
C9_EmptyGoogleTriesOutlook ==
  \A i \in 1..Len(reqDays) :
    LET tk == task[i].calendar
    IN (/\ auth.google /\ auth.outlook
        /\ tk.pc \in {"o_fetching", "o_saving", "done"}
        /\ tk.g \in {"hit", "fresh"}
        /\ tk.gEvents = <<>>)
       => tk.o \in {"hit", "fetch", "error"}

\* The calendar tasks of the running or last pass that consulted Outlook.
ConsultedOutlook == {i \in 1..Len(reqDays) : task[i].calendar.o # "skip"}

\* C10: when Google yielded at least one event for a day, from a cache hit
\* or a fresh fetch, the calendar task does not consult Outlook for that
\* day: no Outlook lookup is counted, no Outlook adapter call is made and no
\* Outlook entry is written for it.
C10_GoogleEventsSkipOutlook ==
  /\ \A i \in 1..Len(reqDays) :
       LET tk == task[i].calendar
       IN (tk.g \in {"hit", "fresh"} /\ Len(tk.gEvents) >= 1)
            => /\ tk.o = "skip"
               /\ tk.pc \in {"g_saving", "done"}
               /\ tk.pc = "done" => tk.val = tk.gEvents
  /\ Len(returned) = 0 =>
       /\ cacheStats.outlookHits + cacheStats.outlookMisses
            = IF force THEN 0 ELSE Cardinality(ConsultedOutlook)
       /\ DOMAIN cache.outlookCalendar
            \subseteq {getDateKey(reqDays[i], tzEast) : i \in ConsultedOutlook}

\* Google yielded an event from a cache hit in a pass with Outlook enabled.
C10_Witness ==
  \E i \in 1..Len(reqDays) :
    /\ auth.outlook
    /\ task[i].calendar.pc = "done"
    /\ task[i].calendar.g = "hit"
    /\ Len(task[i].calendar.gEvents) >= 1
    /\ task[i].calendar.o = "skip"

\* Google yielded an event from a fresh fetch in a pass with Outlook enabled.
C10_WitnessFresh ==
  \E i \in 1..Len(reqDays) :
    /\ auth.outlook
    /\ task[i].calendar.pc = "done"
    /\ task[i].calendar.g = "fresh"
    /\ Len(task[i].calendar.gEvents) >= 1
    /\ task[i].calendar.o = "skip"

\* C12: when persisting the cache fails after a provider fetch succeeded,
\* the fetch task still returns the freshly fetched payload: a commit task
\* whose adapter returned settles fulfilled with that payload, and a calendar
\* task whose provider returned events settles with those events.
C12_WriteFailureKeepsPayload ==
  \A i \in 1..Len(reqDays) :
    /\ \A p \in CommitProviders :
         (task[i][p].adapter = "returned" /\ Settled(task[i][p]))
           => /\ task[i][p].pc = "done"
              /\ task[i][p].val = getActivityForDate(p, reqDays[i])
    /\ LET tk == task[i].calendar
       IN /\ (tk.pc = "done" /\ tk.g = "fresh" /\ tk.gEvents # <<>>) => tk.val = tk.gEvents
          /\ (tk.pc = "done" /\ tk.o = "fetch")
               => tk.val = getEventsForDate("outlook", reqDays[i])

\* C13: clearing one namespace never disturbs another: clearGitLab leaves
\* every calendar entry and every hit/miss counter unchanged, clearCalendars
\* leaves every GitLab entry and every hit/miss counter unchanged.
C13_ClearLeavesOthers ==
  /\ last.op = "clearGitLab" =>
       /\ cache.gitlab = EmptyMap
       /\ cache.googleCalendar = last.before.googleCalendar
       /\ cache.outlookCalendar = last.before.outlookCalendar
       /\ cacheStats = last.statsBefore
  /\ last.op = "clearCalendars" =>
       /\ cache.googleCalendar = EmptyMap
       /\ cache.outlookCalendar = EmptyMap
       /\ cache.gitlab = last.before.gitlab
       /\ cacheStats = last.statsBefore

\* clearGitLab ran on a store holding a GitLab and a calendar entry.
C13_Witness ==
  /\ last.op = "clearGitLab"
  /\ last.before.gitlab # EmptyMap
  /\ last.before.googleCalendar # EmptyMap
  /\ cache.googleCalendar # EmptyMap

\* clearGitLab ran after a counted hit on a calendar entry.
C13_WitnessCounters ==
  /\ last.op = "clearGitLab"
  /\ last.statsBefore.googleHits > 0
  /\ cacheStats.googleHits > 0

\* clearCalendars ran on a store holding a GitLab and a calendar entry.
C13_WitnessCalendars ==
  /\ last.op = "clearCalendars"
  /\ last.before.gitlab # EmptyMap
  /\ last.before.outlookCalendar # EmptyMap
  /\ cache.gitlab # EmptyMap

\* C14: a cache entry is stored only after a provider call for its day
\* succeeded: every entry holds what a provider returns for that day, never
\* the nothing of a failed call.
C14_EntriesFromSuccessfulCalls ==
  /\ \A k \in DOMAIN cache.gitlab :
       \E d \in Days, p \in CommitProviders :
         /\ getDateKey(d, tzEast) = k
         /\ cache.gitlab[k].data = getActivityForDate(p, d)
  /\ \A k \in DOMAIN cache.googleCalendar :
       \E d \in Days :
         /\ getDateKey(d, tzEast) = k
         /\ cache.googleCalendar[k].data = getEventsForDate("google", d)
  /\ \A k \in DOMAIN cache.outlookCalendar :
       \E d \in Days :
         /\ getDateKey(d, tzEast) = k
         /\ cache.outlookCalendar[k].data = getEventsForDate("outlook", d)

\* A day without any commit, merge request, issue or meeting.
IsEmptyDay(day) ==
  /\ day.meetings = <<>>
  /\ day.gitlabActivity.commits = <<>>
  /\ day.gitlabActivity.mergeRequests = <<>>
  /\ day.gitlabActivity.issues = <<>>

\* The caller's list in date order, and the method it called.
SortedInput == SortByDate(activities)
RunMode(m, acts) ==
  IF m = "proportional" THEN distributeActivities(acts)
                        ELSE distributeActivitiesIntelligent(acts)

\* The positions of the trailing empty days of a sorted list: the empty days
\* with no later day with activity.
Trailing(sorted) ==
  {i \in 1..Len(sorted) : \A j \in i..Len(sorted) : IsEmptyDay(sorted[j])}

\* The sorted list without its trailing empty days.
StripTrailing(sorted) == SubSeq(sorted, 1, Len(sorted) - Cardinality(Trailing(sorted)))

\* C15: in both modes every trailing empty day (no later day with activity)
\* is returned still empty, nothing added, and is not counted in
\* daysWithGaps: the count is that of the list without its trailing days.
C15_TrailingDaysStayEmpty ==
  mode # "none" =>
    /\ Len(distribution.activities) = Len(SortedInput)
    /\ \A i \in Trailing(SortedInput) :
         /\ distribution.activities[i] = SortedInput[i]
         /\ IsEmptyDay(distribution.activities[i])
    /\ distribution.distributionInfo.daysWithGaps
         = RunMode(mode, StripTrailing(SortedInput)).distributionInfo.daysWithGaps

\* A list with a gap that was filled and two trailing empty days.
C15_Witness ==
  /\ mode # "none"
  /\ Cardinality(Trailing(SortedInput)) >= 1
  /\ Cardinality(Trailing(SortedInput)) < Len(SortedInput)
  /\ IsEmptyDay(SortedInput[1])
  /\ ~IsEmptyDay(distribution.activities[1])
  /\ IsEmptyDay(distribution.activities[Len(SortedInput)])

\* C16: on a list with no empty days the distributor, in either mode,
\* returns every day unchanged with daysWithGaps = 0, daysDistributed = 0 and
\* an empty message; and a second run, in either mode, on an output with no
\* remaining empty days changes nothing.
NothingDone(r, acts) ==
  /\ r.activities = acts
  /\ r.distributionInfo.daysWithGaps = 0
  /\ r.distributionInfo.daysDistributed = 0
  /\ r.distributionInfo.message = <<>>

C16_NoEmptyDaysUnchanged ==
  mode # "none" =>
    /\ (\A i \in 1..Len(SortedInput) : ~IsEmptyDay(SortedInput[i]))
         => NothingDone(distribution, SortedInput)
    /\ (\A i \in 1..Len(distribution.activities) : ~IsEmptyDay(distribution.activities[i]))
         => \A m \in {"proportional", "intelligent"} :
              NothingDone(RunMode(m, distribution.activities), distribution.activities)

\* A list with a day holding only a meeting and no empty day was run.
C16_Witness ==
  /\ mode # "none"
  /\ Len(SortedInput) >= 2
  /\ \A i \in 1..Len(SortedInput) : ~IsEmptyDay(SortedInput[i])
  /\ \E i \in 1..Len(SortedInput) :
       /\ SortedInput[i].meetings # <<>>
       /\ SortedInput[i].gitlabActivity.commits = <<>>
       /\ SortedInput[i].gitlabActivity.mergeRequests = <<>>
       /\ SortedInput[i].gitlabActivity.issues = <<>>
  /\ distribution.activities = SortedInput

\* A run filled every empty day, and its output was run again unchanged.
C16_WitnessSecondRun ==
  /\ mode # "none"
  /\ distribution.distributionInfo.daysDistributed > 0
  /\ \A i \in 1..Len(distribution.activities) : ~IsEmptyDay(distribution.activities[i])

\* C17: the message is empty exactly when no distribution occurred, that is
\* when no item was added to any day.
C17_MessageIffDistributed ==
  mode # "none" =>
    (distribution.distributionInfo.message = <<>> <=> distribution.activities = SortedInput)

\* The empty days of a sorted list that precede some day with activity, and
\* those of them that start a maximal run.
GapDays(sorted) ==
  {i \in 1..Len(sorted) :
     IsEmptyDay(sorted[i]) /\ \E j \in (i + 1)..Len(sorted) : ~IsEmptyDay(sorted[j])}
GapStarts(sorted) ==
  {i \in GapDays(sorted) : i = 1 \/ ~IsEmptyDay(sorted[i - 1])}

\* C18: each empty day is consumed by at most one gap: daysWithGaps is the
\* number of empty input days that precede some activity day and
\* daysDistributed the number of maximal runs of such days.
C18_EachGapCountedOnce ==
  mode # "none" =>
    /\ distribution.distributionInfo.daysWithGaps = Cardinality(GapDays(SortedInput))
    /\ distribution.distributionInfo.daysDistributed = Cardinality(GapStarts(SortedInput))

\* C11: no provider adapter is called for a day later than today, and a tool
\* call that has answered reports nothing fetched for such a day.
C11_FutureDaysNeverFetched ==
  \A d \in Days :
    d > today =>
      /\ d \notin io.calls
      /\ (response.kind = "text" /\ d \in DOMAIN response.days)
           => (response.days[d] = FutureDay \/ response.days[d].value = <<>>)

\* The messages of the errors thrown for the caller's arguments.
InputErrors ==
  {"Invalid date format",
   "start_date must be before or equal to end_date",
   "Either date OR start_date+end_date must be provided"}

\* C19: when a tool call is answered with an error about its arguments, the
\* handler has read no file, looked nothing up in the cache and called no
\* provider.
C19_InputErrorBeforeAnyIO ==
  (response.kind = "error" /\ response.message \in InputErrors) => io = NoIO

\* The days of the running request that need a provider call whatever the
\* cache holds: every day of a force_refresh request the tool fetches.
ForcedDays ==
  IF request = NoRequest \/ request.force_refresh # "true"
    THEN {}
    ELSE LET v == Dispatch(request, configured, today)
         IN IF v.kind # "fetch"
              THEN {}
              ELSE {d \in v.from..v.to :
                      request.tool = "fetch_gitlab_activity" => d <= today}

\* C20: while a provider call of a multi-day request is in flight, the
\* provider call of every other day of the request has been issued too.
C20_AllDaysDispatchedTogether ==
  toolPc = "adapter" => ForcedDays \subseteq io.calls


\* The hit counter and the miss counter of a namespace.
HitField(ns) ==
  CASE ns = "gitlab" -> "gitlabHits"
    [] ns = "googleCalendar" -> "googleHits"
    [] ns = "outlookCalendar" -> "outlookHits"

MissField(ns) ==
  CASE ns = "gitlab" -> "gitlabMisses"
    [] ns = "googleCalendar" -> "googleMisses"
    [] ns = "outlookCalendar" -> "outlookMisses"

\* C21: a get adds one to the hit counter or to the miss counter of the
\* namespace it queried and changes no other counter; the totals of
\* getCacheStats are the sums of the counters, never more than the calls made,
\* and totalHits <= totalRequests.
C21_GetCountsOnce ==
  /\ [][(calls' = calls + 1 /\ last'.op = "get") =>
          \/ cacheStats' = [cacheStats EXCEPT ![HitField(last'.ns)] = @ + 1]
          \/ cacheStats' = [cacheStats EXCEPT ![MissField(last'.ns)] = @ + 1]]_vars
  /\ [](LET g == getCacheStats(cacheStats)
        IN /\ g.totalRequests =
                cacheStats.gitlabHits + cacheStats.gitlabMisses + cacheStats.googleHits
                + cacheStats.googleMisses + cacheStats.outlookHits + cacheStats.outlookMisses
           /\ g.totalHits <= g.totalRequests
           /\ g.totalRequests <= calls)

\* A get that hit after a get that missed: both counters have moved.
C21_Witness ==
  /\ last.op = "get"
  /\ last.hit
  /\ getCacheStats(cacheStats).totalHits = 1
  /\ getCacheStats(cacheStats).totalRequests = 2

\* C22: clearExpired deletes from every namespace exactly the entries older
\* than the TTL; an entry of age TTL or less stays with its payload and
\* timestamp, and the counters do not change.
C22_ClearExpiredExact ==
  last.op = "clearExpired" =>
    /\ cacheStats = last.statsBefore
    /\ \A ns \in Namespaces :
         /\ DOMAIN cache[ns] \subseteq DOMAIN last.before[ns]
         /\ \A k \in DOMAIN last.before[ns] :
              IF last.at - last.before[ns][k].timestamp > cacheTTL
                THEN k \notin DOMAIN cache[ns]
                ELSE k \in DOMAIN cache[ns] /\ cache[ns][k] = last.before[ns][k]

\* A sweep that deleted a stale entry and kept a fresh one.
C22_Witness ==
  /\ last.op = "clearExpired"
  /\ \E ns \in Namespaces : DOMAIN cache[ns] # DOMAIN last.before[ns]
  /\ \E ns \in Namespaces : cache[ns] # EmptyMap

\* A sweep that kept an entry whose age is exactly the TTL.
C22_WitnessAtTTL ==
  /\ last.op = "clearExpired"
  /\ \E ns \in Namespaces : \E k \in DOMAIN cache[ns] :
       last.at - cache[ns][k].timestamp = cacheTTL

\* The cache file is missing, unreadable or not one a save() wrote.
C23_BadFile == ~file.exists \/ DOMAIN file.content # Namespaces

\* C23: after load() of a missing, unreadable or corrupt cache file the store
\* is empty in all three namespaces, and no later get or set of the request
\* fails on the store.
C23_LoadRecovers ==
  /\ (toolPc = "loadConfig" /\ C23_BadFile) => cache = EmptyCache
  /\ response.kind = "error" => response.message # "TypeError"

\* C24: when the Google adapter raises, the calendar task goes on without
\* rejecting and without writing a Google entry; it turns to Outlook (its
\* cache, then its adapter) when Outlook is authenticated and otherwise
\* returns no meetings.
C24_PrimaryErrorFallsBack ==
  [][\A i \in DOMAIN task :
       (/\ i \in DOMAIN task'
        /\ task[i].calendar.pc = "g_fetching"
        /\ task'[i].calendar.g = "error") =>
         /\ cache'.googleCalendar = cache.googleCalendar
         /\ task'[i].calendar.pc \in {"o_fetching", "done"}
         /\ IF auth.outlook
              THEN task'[i].calendar.o \in {"hit", "fetch"}
              ELSE /\ task'[i].calendar.pc = "done"
                   /\ task'[i].calendar.o = "skip"
                   /\ task'[i].calendar.val = <<>>]_vars

\* Google raised and the task is fetching from Outlook.
C24_Witness ==
  \E i \in DOMAIN task :
    /\ task[i].calendar.g = "error"
    /\ task[i].calendar.pc = "o_fetching"

\* Google raised, Outlook is not authenticated: the task returned no meetings.
C24_WitnessNoSecondary ==
  \E i \in DOMAIN task :
    /\ task[i].calendar.g = "error"
    /\ ~auth.outlook
    /\ task[i].calendar.pc = "done"
    /\ task[i].calendar.val = <<>>

\* C25: in the phased mode every empty day that has a later day with
\* activity gets exactly one commit, of project 'Distributed Work' and branch
\* 'phase-distribution', and nothing else; every other day, the source days
\* included, is returned as it was.  A gap of G days so receives G commits.
C25_OnePhasePerGapDay ==
  mode = "intelligent" =>
    LET sorted == SortedInput
        gap == GapDays(sorted)
    IN /\ Len(distribution.activities) = Len(sorted)
       /\ \A i \in 1..Len(sorted) :
         LET before == sorted[i]
             after == distribution.activities[i]
         IN IF i \in gap
              THEN /\ Len(after.gitlabActivity.commits) = 1
                   /\ after.gitlabActivity.commits[1].project = "Distributed Work"
                   /\ after.gitlabActivity.commits[1].branch = "phase-distribution"
                   /\ [after EXCEPT !.gitlabActivity.commits = <<>>] = before
              ELSE after = before

\* A phased run over a gap of eight days or more, longer than phaseNames.
C25_Witness ==
  /\ mode = "intelligent"
  /\ \E i \in GapStarts(SortedInput) : \A k \in i..(i + 7) : k \in GapDays(SortedInput)

\* A phased run over a gap of exactly three days.
C25_WitnessGapOfThree ==
  /\ mode = "intelligent"
  /\ \E i \in GapStarts(SortedInput) :
       /\ \A k \in i..(i + 2) : k \in GapDays(SortedInput)
       /\ (i + 3) \notin GapDays(SortedInput)

\* C26: the merged payload of a resolved day lists, for commits, merge
\* requests and issues alike, what the GitLab task yielded followed by what
\* the GitHub task yielded, each in its own order; a disabled or failed task
\* yields nothing.
C26_MergedInProviderOrder ==
  \A i \in DOMAIN dayResult :
    dayResult[i] # Pending =>
      LET merged == dayResult[i].activity.gitlabActivity
          gl == Contribution(i, "gitlab")
          gh == Contribution(i, "github")
      IN /\ merged.commits = gl.commits \o gh.commits
         /\ merged.mergeRequests = gl.mergeRequests \o gh.mergeRequests
         /\ merged.issues = gl.issues \o gh.issues

\* A resolved day for which both commit providers yielded commits, GitLab's
\* fetched from GitLab and GitHub's from GitHub.
C26_Witness ==
  \E i \in DOMAIN dayResult :
    /\ dayResult[i] # Pending
    /\ task[i].gitlab.pc = "done"
    /\ task[i].github.pc = "done"
    /\ task[i].gitlab.val = getActivityForDate("gitlab", reqDays[i])
    /\ task[i].github.val = getActivityForDate("github", reqDays[i])

\* A resolved day whose GitLab task failed while GitHub yielded commits.
C26_WitnessOneFailed ==
  \E i \in DOMAIN dayResult :
    /\ dayResult[i] # Pending
    /\ task[i].gitlab.pc = "rejected"
    /\ task[i].github.pc = "done"
    /\ dayResult[i].activity.gitlabActivity.commits # <<>>

\* C27: the key under which a get or a set reads or writes the store is the
\* local calendar day the caller asked for, whatever the timezone of the
\* process.
C27_KeyIsLocalDay ==
  last.op \in {"get", "set"} => last.key = last.day

\* The running or last tool call asked for force_refresh.
C28_Forced == request # NoRequest /\ request.force_refresh = "true"

\* C28: a tool call with force_refresh = true changes no hit or miss counter;
\* when it answers, every day it was asked for and did not skip as future has
\* had its provider called and is reported as fresh; the entry it has just
\* stored holds the adapter's result and the current time.  Without
\* force_refresh = true the cache is looked up before a provider is called.
C28_ForceRefreshBypassesCache ==
  /\ [][(C28_Forced /\ request' = request) => cacheStats' = cacheStats]_vars
  /\ []((C28_Forced /\ response.kind = "text") =>
          LET v == Dispatch(request, configured, today)
          IN \A d \in v.from..v.to :
               /\ d \in DOMAIN response.days
               /\ response.days[d] # FutureDay =>
                    d \in io.calls /\ ~response.days[d].fromCache)
  /\ []((C28_Forced /\ toolPc = "save") =>
          LET entry == cache[ToolNamespace(request.tool)][getDateKey(currentDate, tzEast)]
          IN /\ entry.timestamp = now
             /\ entry.data \in
                  IF request.tool = "fetch_gitlab_activity"
                    THEN {getActivityForDate("gitlab", currentDate), EmptyActivity(currentDate)}
                    ELSE {getEventsForDate("google", currentDate)})
  /\ []((request # NoRequest /\ request.force_refresh # "true" /\ toolPc = "adapter") =>
          currentDate \in io.lookups)

\* A forced tool call, made after the clock moved, has answered: the entry of
\* a day it fetched carries the new time.
C28_Witness ==
  /\ C28_Forced
  /\ response.kind = "text"
  /\ now > 0
  /\ requests = 2
  /\ ToolNamespace(request.tool) \in DOMAIN cache
  /\ \E d \in DOMAIN response.days :
       /\ response.days[d] # FutureDay
       /\ ~response.days[d].fromCache
       /\ getDateKey(d, tzEast) \in DOMAIN cache[ToolNamespace(request.tool)]
       /\ cache[ToolNamespace(request.tool)][getDateKey(d, tzEast)].timestamp = now

\* A tool call without the force_refresh argument was answered from the cache.
C28_WitnessDefault ==
  /\ request # NoRequest
  /\ request.force_refresh = "absent"
  /\ response.kind = "text"
  /\ \E d \in DOMAIN response.days :
       response.days[d] # FutureDay /\ response.days[d].fromCache

C29_WitnessAllInUse ==
  /\ oauthServer.outcome = "No available ports"
  /\ portsInUse = Ports

\* C30: once the sequential caller has changed the store, the cache file
\* holds the store as it is in memory after every completed call.
C30_FileEqualsStore ==
  /\ file.exists => file.content = cache
  /\ cache # EmptyCache => file.exists

\* The maximal runs of empty days of a sorted list that precede a day with
\* activity: <<g, s>>, days g..s-1 empty and day s the source.
RunsBeforeSource(sorted) ==
  {gap \in (1..Len(sorted)) \X (1..Len(sorted)) :
     /\ gap[1] < gap[2]
     /\ ~IsEmptyDay(sorted[gap[2]])
     /\ \A i \in gap[1]..(gap[2] - 1) : IsEmptyDay(sorted[i])
     /\ gap[1] > 1 => ~IsEmptyDay(sorted[gap[1] - 1])}

Kinds == {"commits", "mergeRequests", "issues"}
TextOf(kind) == IF kind = "commits" THEN "message" ELSE "title"

\* The n items after position from of a source list, each with the prefix.
MarkedSlice(source, kind, from, n) ==
  [k \in 1..n |->
     [source[from + k] EXCEPT ![TextOf(kind)] = <<"[Distributed]">> \o source[from + k][TextOf(kind)]]]

\* C31: in the proportional mode, for each kind, with c items on the source
\* day and a gap of G empty days before it, the k-th empty day of the gap
\* holds exactly the k-th slice of floor(c / (G + 1)) items of the source, in
\* source order and prefixed '[Distributed]'; nothing when the quotient is 0.
C31_EqualSlicesPerGapDay ==
  mode = "proportional" =>
    LET sorted == SortedInput
    IN \A gap \in RunsBeforeSource(sorted) : \A kind \in Kinds :
         LET source == sorted[gap[2]].gitlabActivity[kind]
             perDay == Len(source) \div ((gap[2] - gap[1]) + 1)
         IN \A i \in gap[1]..(gap[2] - 1) :
              distribution.activities[i].gitlabActivity[kind]
                = MarkedSlice(source, kind, (i - gap[1]) * perDay, perDay)

\* The marker commit, and the days of a result that hold a prefixed copy of
\* an item of the input day src.
IsMarker(commit) == commit.project = "System" /\ commit.branch = "distribution"
CopiesFrom(day, src) ==
  \E kind \in Kinds :
    \E a \in 1..Len(day.gitlabActivity[kind]), b \in 1..Len(src.gitlabActivity[kind]) :
      day.gitlabActivity[kind][a] = MarkedSlice(src.gitlabActivity[kind], kind, b - 1, 1)[1]
Receivers(res, sorted, s) == {i \in 1..(s - 1) : CopiesFrom(res[i], sorted[s])}

\* C32: in the proportional mode a day of the result carries at most one
\* marker commit; it carries one exactly when some earlier day holds a copy
\* of one of its items, and then the marker is the first of its commits,
\* names the number of days the relocating call filled and is followed by
\* the day's own commits.
C32_OneMarkerIffRelocated ==
  mode = "proportional" =>
    LET sorted == SortedInput
        res == distribution.activities
    IN \A s \in 1..Len(res) :
         LET commits == res[s].gitlabActivity.commits
             markers == {k \in 1..Len(commits) : IsMarker(commits[k])}
             recv == Receivers(res, sorted, s)
         IN /\ Cardinality(markers) <= 1
            /\ markers # {} <=> recv # {}
            /\ markers # {} =>
                 /\ markers = {1}
                 /\ commits[1].message = <<"[Note]", Cardinality(recv)>>
                 /\ Tail(commits) = sorted[s].gitlabActivity.commits

\* A source day with a gap of two before it gave to both days and carries
\* the marker.
C32_Witness ==
  /\ mode = "proportional"
  /\ Len(distribution.activities) = 3
  /\ Cardinality(Receivers(distribution.activities, SortedInput, 3)) = 2
  /\ IsMarker(distribution.activities[3].gitlabActivity.commits[1])

\* A source day with an empty day before it and too few items to give any
\* carries no marker.
C32_WitnessNothingRelocated ==
  /\ mode = "proportional"
  /\ Len(SortedInput) >= 2
  /\ IsEmptyDay(SortedInput[1])
  /\ Len(SortedInput[2].gitlabActivity.commits) = 1
  /\ distribution.activities = SortedInput

\* A range request whose arguments passed validation, on a well-formed store.
C33_RangeFetch ==
  /\ request # NoRequest
  /\ Truthy(request.start_date) /\ Truthy(request.end_date)
  /\ Dispatch(request, configured, today).kind = "fetch"
  /\ DOMAIN cache = Namespaces

\* C33: a range request that got as far as fetching is answered with the
\* day-by-day text holding every day of the range, whatever provider call or
\* cache write failed on the way.
C33_DayFailureRecoveredLocally ==
  (C33_RangeFetch /\ response # NoResponse) =>
    /\ response.kind = "text"
    /\ DOMAIN response.days = request.start_date.day..request.end_date.day

\* The dates of a list of days, in list order.
DatesOf(acts) == [i \in 1..Len(acts) |-> acts[i].date]

\* C34: in both modes the returned days are in ascending date order, they
\* are the caller's days (the same dates, each once), and the caller's array
\* still lists its days in the order the caller gave.
C34_ReturnsSortedCopy ==
  mode # "none" =>
    LET res == distribution.activities
    IN /\ \A i, j \in 1..Len(res) : i < j => res[i].date < res[j].date
       /\ Len(res) = Len(activities)
       /\ {res[i].date : i \in 1..Len(res)} = {activities[i].date : i \in 1..Len(activities)}
       /\ DatesOf(callerArray) = DatesOf(activities)

\* An unsorted list was run: the result starts with another day than the
\* caller's array does.
C34_Witness ==
  /\ mode # "none"
  /\ Len(activities) = 3
  /\ activities[1].date > activities[2].date
  /\ distribution.activities[1].date # callerArray[1].date

\* A sorted list was run and came back in its order.
C34_WitnessSorted ==
  /\ mode # "none"
  /\ Len(activities) = 3
  /\ DatesOf(activities) = <<1, 2, 3>>
  /\ DatesOf(distribution.activities) = <<1, 2, 3>>

\* The label of the k-th empty day (k from 0) of a gap of G days.
PhaseLabel(G, k) ==
  CASE G = 1 -> "Research & Planning"
    [] G = 2 -> <<"Analysis", "Development">>[k + 1]
    [] G = 3 -> <<"Planning", "Implementation", "Testing">>[k + 1]
    [] OTHER -> <<"Planning", "Research", "Design", "Implementation", "Testing",
                  "Refinement", "Documentation">>[(k % 7) + 1]

\* C35: in the phased mode the k-th empty day of a run of G empty days before
\* a day with activity holds one commit whose phase label is the k-th of the
\* progression for G.
C35_PhaseLabelProgression ==
  mode = "intelligent" =>
    LET sorted == SortedInput
        res == distribution.activities
    IN \A gap \in RunsBeforeSource(sorted) : \A i \in gap[1]..(gap[2] - 1) :
         /\ Len(res[i].gitlabActivity.commits) = 1
         /\ res[i].gitlabActivity.commits[1].message[2]
              = PhaseLabel(gap[2] - gap[1], i - gap[1])

\* A gap of eight days: the eighth day is labelled as the first.
C35_Witness ==
  /\ mode = "intelligent"
  /\ Len(activities) = 9
  /\ \A i \in 1..8 : IsEmptyDay(activities[i])
  /\ distribution.activities[8].gitlabActivity.commits[1].message[2] = "Planning"
  /\ distribution.activities[7].gitlabActivity.commits[1].message[2] = "Documentation"

\* A gap of three days after a day with activity.
C35_WitnessGapOfThree ==
  /\ mode = "intelligent"
  /\ Len(activities) = 5
  /\ ~IsEmptyDay(activities[1]) /\ ~IsEmptyDay(activities[5])
  /\ \A i \in 2..4 : IsEmptyDay(activities[i])
  /\ distribution.activities[4].gitlabActivity.commits[1].message[2] = "Testing"

\* The first day after position i of a sorted list that is not empty, or 0.
NextSource(sorted, i) ==
  IF \E s \in (i + 1)..Len(sorted) : ~IsEmptyDay(sorted[s])
    THEN CHOOSE s \in (i + 1)..Len(sorted) :
           /\ ~IsEmptyDay(sorted[s])
           /\ \A j \in (i + 1)..(s - 1) : IsEmptyDay(sorted[j])
    ELSE 0

\* Every item of a result day is a prefixed copy of an item of the input day
\* src, or a phase commit made from src.
AllFrom(m, day, src) ==
  IF m = "proportional"
    THEN \A kind \in Kinds : \A a \in 1..Len(day.gitlabActivity[kind]) :
           \E b \in 1..Len(src.gitlabActivity[kind]) :
             day.gitlabActivity[kind][a]
               = MarkedSlice(src.gitlabActivity[kind], kind, b - 1, 1)[1]
    ELSE /\ day.gitlabActivity.mergeRequests = <<>>
         /\ day.gitlabActivity.issues = <<>>
         /\ \A a \in 1..Len(day.gitlabActivity.commits) :
              /\ day.gitlabActivity.commits[a].project = "Distributed Work"
              /\ day.gitlabActivity.commits[a].message[3] = summarizeWork(src)

\* C36: in both modes every day keeps its date and its meetings; a day that
\* had activity keeps its merge requests, issues and commits, but for the
\* one marker put in front of the commits of a proportional-mode source; an
\* empty day with no later activity day stays empty; and whatever another
\* empty day holds comes from the next day with activity alone.
C36_OnlyGapDaysReceive ==
  mode # "none" =>
    LET sorted == SortedInput
        res == distribution.activities
    IN /\ Len(res) = Len(sorted)
       /\ \A i \in 1..Len(sorted) :
            /\ res[i].date = sorted[i].date
            /\ res[i].meetings = sorted[i].meetings
            /\ ~IsEmptyDay(sorted[i]) =>
                 /\ res[i].gitlabActivity.mergeRequests = sorted[i].gitlabActivity.mergeRequests
                 /\ res[i].gitlabActivity.issues = sorted[i].gitlabActivity.issues
                 /\ \/ res[i].gitlabActivity.commits = sorted[i].gitlabActivity.commits
                    \/ /\ mode = "proportional"
                       /\ res[i].gitlabActivity.commits # <<>>
                       /\ IsMarker(res[i].gitlabActivity.commits[1])
                       /\ Tail(res[i].gitlabActivity.commits) = sorted[i].gitlabActivity.commits
            /\ IsEmptyDay(sorted[i]) =>
                 IF NextSource(sorted, i) = 0
                   THEN res[i] = sorted[i]
                   ELSE AllFrom(mode, res[i], sorted[NextSource(sorted, i)])

\* The phased mode filled two gaps with different sources, and the day with
\* only a meeting between them is untouched.
C36_WitnessPhased ==
  /\ mode = "intelligent"
  /\ Len(SortedInput) = 4
  /\ IsEmptyDay(SortedInput[1]) /\ IsEmptyDay(SortedInput[3])
  /\ SortedInput[2].meetings # <<>> /\ SortedInput[2].gitlabActivity.commits = <<>>
  /\ distribution.activities[2] = SortedInput[2]
  /\ ~IsEmptyDay(distribution.activities[1])
  /\ ~IsEmptyDay(distribution.activities[3])

\* The proportional mode gave copies of a source's items to the empty day
\* before it; the day before that, with activity of its own, is unchanged.
C36_Witness ==
  /\ mode = "proportional"
  /\ Len(SortedInput) = 3
  /\ ~IsEmptyDay(SortedInput[1])
  /\ IsEmptyDay(SortedInput[2])
  /\ ~IsEmptyDay(distribution.activities[2])
  /\ distribution.activities[1] = SortedInput[1]
  /\ IsMarker(distribution.activities[3].gitlabActivity.commits[1])

C37_WitnessUnknownTool ==
  /\ request = UnknownTool
  /\ response.kind = "error"
  /\ response.message = "Unknown tool"

\* C38: a call of getEventsForDate that has reached one of its awaits
\* eventually returns its events or raises.
C38_GetEventsTerminates ==
  (googleCall.pc \notin {"idle", "returned", "raised"})
    ~> (googleCall.pc \in {"returned", "raised"})

\* C39: when runOAuthFlow has ended, by a code, an OAuth error, the timeout
\* or the lack of a free port, with the browser opened or not, its server
\* listens on no port; unless the timer fired first, what it returns is the
\* first callback received; and the stop() of its finally block after the
\* stop() of waitForCallback changes nothing and raises nothing.
C39_NoServerLeftListening ==
  /\ [](oauthFlow.pc = "done" =>
          /\ oauthServer.outcome # "listening"
          /\ oauthServer.port = 0
          /\ (oauthFlow.received # <<>> /\ oauthFlow.callbackPromise # "timeout")
               => oauthFlow.result = oauthFlow.received[1]
          /\ oauthFlow.result # "none" => oauthFlow.received # <<>>)
  /\ [][(oauthFlow.pc = "finally" /\ oauthServer.outcome = "stopped"
           /\ oauthFlow'.pc = "done")
          => /\ oauthServer' = oauthServer
             /\ oauthFlow'.error = oauthFlow.error
             /\ oauthFlow'.result = oauthFlow.result]_vars

\* Two callbacks arrived, an error and then a code; the flow ended with the
\* error after both stops, the browser not having opened.
C39_Witness ==
  /\ oauthFlow.pc = "done"
  /\ oauthFlow.received = <<"error", "code">>
  /\ oauthFlow.result = "error"
  /\ oauthFlow.browser = "failed"
  /\ oauthServer.outcome = "stopped"

\* The flow ended on the timeout, and on the lack of a free port.
C39_WitnessTimeout ==
  /\ oauthFlow.pc = "done"
  /\ oauthFlow.callbackPromise = "timeout"
  /\ oauthFlow.error = "OAuth flow failed: OAuth callback timeout"
  /\ oauthServer.outcome = "stopped"
C39_WitnessNoFreePort ==
  /\ oauthFlow.pc = "done"
  /\ portsInUse = Ports
  /\ oauthFlow.error # "none"

\* C1: a get is a hit, returning the stored payload, iff an entry exists for
\* the key and now - entry.timestamp <= TTL; a get of an entry older than the
\* TTL is a miss that removes the entry from the store.
C1_GetHitIffFresh ==
  last.op = "get" =>
    /\ last.hit <=> (last.had /\ last.age <= cacheTTL)
    /\ last.hit => last.data = last.stored
    /\ ~last.hit => last.key \notin DOMAIN cache[last.ns]

\* A get one millisecond past the TTL missed and evicted the entry.
C1_Witness ==
  /\ last.op = "get"
  /\ last.had
  /\ last.age = cacheTTL + 1
  /\ ~last.hit
  /\ last.key \notin DOMAIN cache[last.ns]

\* A get at an age of exactly the TTL hit.
C1_WitnessHitAtTTL ==
  /\ last.op = "get"
  /\ last.had
  /\ last.age = cacheTTL
  /\ last.hit
====
